---- MODULE Spec2Model ----
(***************************************************************************)
(* Model of the functional QA engine of qa-mcp                             *)
(* (src/src/tools/functional-qa.ts): functionalQATool drives one browser   *)
(* page through a connectivity test, the probes selected by the suite      *)
(* mode, the caller's user flows and two assessments, accumulating         *)
(* TestResults (qaResults) and issues, and returns a summary or an error   *)
(* envelope.  Page operations are the environment: each one either         *)
(* answers or throws, chosen nondeterministically.  The console monitor   *)
(* (src/src/tools/console-monitor.ts) and the server's tool handler        *)
(* (src/deployment-testing.md) are modelled after it, with specifications  *)
(* of their own.                                                           *)
(*                                                                         *)
(* JavaScript values that are not plain booleans are kept as strings:      *)
(* a `passed` field is "true", "false" or "" (the empty title that         *)
(* `title && ...` lets through).                                           *)
(***************************************************************************)
EXTENDS Integers, Sequences, FiniteSets, TLC

VARIABLES
    pc,          \* position of the invocation / of the unit call
    testSuite,   \* validatedArgs.testSuite
    userFlows,   \* validatedArgs.userFlows: sequence of flows (a flow = its steps' actions)
    flowIdx,     \* index of the next flow of the for-of loop, lines 86-89
    browser,     \* "none" (undefined), "open", "closed"
    closeCount,  \* number of times browser.close() was invoked
    location,    \* the page's current location
    viewport,    \* the page's current viewport
    qaResults,   \* const qaResults: any[]
    issues,      \* const issues: any[]
    trace,       \* history: the probes started, in order
    thrown,      \* history: the probes in which a page operation threw
    connFailed,  \* history: the connectivity test did not pass
    faults,      \* history: how many answers of the environment were not the healthy one
    unitIn,      \* history: the arguments and answers of a unit call
    response,    \* value returned to the caller
    toolName,    \* request.params.name: the tool the server is asked to run
    filters,     \* console monitor: validatedArgs.filters
    interactions,      \* console monitor: validatedArgs.interactions (their actions)
    step,              \* console monitor: index of the next interaction, line 124
    events,            \* history: browser events delivered to the page's listeners
    consoleMessages,   \* console monitor: const consoleMessages: any[]
    networkErrors,     \* console monitor: const networkErrors: any[]
    performanceMetrics, \* console monitor: const performanceMetrics: any[]
    securityIssues,    \* console monitor: const securityIssues: any[]
    jsErrors,          \* console monitor: const jsErrors: any[]
    endpointTest       \* endpoint tester: the arguments and locals of testEndpointsTool

\* the state of one functionalQATool invocation beyond the shared part
qaVars == << testSuite, userFlows, flowIdx, location, viewport, qaResults, issues,
             trace, thrown, connFailed >>

\* the state of the server's request and of one consoleMonitorTool invocation
monitorVars == << toolName, filters, interactions, step, events, consoleMessages,
                  networkErrors, performanceMetrics, securityIssues, jsErrors >>

vars == << pc, testSuite, userFlows, flowIdx, browser, closeCount, location,
           viewport, qaResults, issues, trace, thrown, connFailed, faults, unitIn,
           response, monitorVars, endpointTest >>

----------------------------------------------------------------------------
(* Bounds of the model *)

MaxSteps == 3      \* steps per flow in the runUserFlow unit specification
MaxLinks == 3      \* links found by the navigation probe in its unit specification
MaxCount == 1      \* findings one DOM query reports (broken images, js errors, ...)
MaxIssues == 3     \* issues handed to generateQARecommendations in its unit specification
MaxFindings == 2   \* images without alt, unlabeled inputs on the page of the audits' unit specification
MaxEndpoints == 3  \* endpoints handed to testEndpointsTool
MaxBatches == 4    \* entries of the batches array the model keeps apart
MaxSeconds == 10   \* the monitoring duration and the time spent before the wait, in seconds
MaxFaults == 2     \* answers of the environment, in one whole run, that are not the
                   \* healthy one (a throw, a bad status, a finding)

(* Program constants *)
LinkCap == 10      \* links.slice(0, 10)

----------------------------------------------------------------------------
(* JavaScript values *)

Bool(b) == IF b THEN "true" ELSE "false"
Truthy(v) == v = "true"               \* r.passed as a condition
\* faulty variant: failed counted as r.passed === false
Falsy_strict(v) == v = "false"
Falsy(v) == v \in { "false", "" }     \* !r.passed: false and the empty string
Min(a, b) == IF a < b THEN a ELSE b

Range(s) == { s[i] : i \in 1..Len(s) }

IsPrefix(s, t) == Len(s) <= Len(t) /\ s = SubSeq(t, 1, Len(s))

----------------------------------------------------------------------------
(* The page *)

OrigUrl == "url"                         \* the url argument
LinkUrl == "link"                        \* an internal link's href
FlowUrl == "flow-url"                    \* step.value of a goto step
ChromeError == "chrome-error"            \* the browser's error page
Blank == "about:blank"                   \* a new page

RequestedViewport == "requested"         \* validatedArgs.viewport
ViewportNames == << "Mobile", "Tablet", "Desktop" >>

\* page.goto answers with a status or throws (connection refused, timeout);
\* "201" stands for the 2xx answers other than 200 that render a document
GotoOutcomes == { "200", "201", "404", "refused", "timeout" }
GotoThrows(o) == o \in { "refused", "timeout" }

\* where the page is after page.goto(target) ended with outcome o
GotoLocation(old, target, o) ==
    CASE o = "refused" -> ChromeError
      [] o = "timeout" -> old
      [] OTHER -> target

----------------------------------------------------------------------------
(* Records *)

Result(name, passed, error) ==
    [ testName |-> name, passed |-> passed, error |-> error, steps |-> << >> ]

Issue(severity, category, count) ==
    [ severity |-> severity, category |-> category, count |-> count ]

----------------------------------------------------------------------------
(* runUserFlow, lines 461-533 *)

Actions == { "goto", "click", "type", "wait", "screenshot", "verify" }

\* what the page does for one step:
\*   goto/click/type/wait: "ok" or "throw" (navigation error, selector timeout)
\*   verify: "ok" (the element is there and its text contains expected),
\*           "mismatch" (it is there with another text), "missing" (page.$ gives
\*           null), "throw" (page.$ throws)
\*   screenshot: the switch has no case for it, nothing is asked of the page
StepOutcomes(action) ==
    CASE action = "verify" -> { "ok", "mismatch", "missing", "throw" }
      [] action = "screenshot" -> { "none" }
      [] OTHER -> { "ok", "throw" }

AllStepOutcomes == { "ok", "mismatch", "missing", "throw", "none" }

\* the outcome vectors possible for a flow
FlowOutcomes(flow) ==
    { o \in [ 1..Len(flow) -> AllStepOutcomes ] :
        \A i \in 1..Len(flow) : o[i] \in StepOutcomes(flow[i]) }

\* line 503: element.textContent() on the handle page.$ returned.  page is
\* puppeteer's (line 1), whose ElementHandle has no textContent method: the
\* call is a TypeError whenever the element was found
TextContentThrows(action, o) == action = "verify" /\ o \in { "ok", "mismatch" }

\* lines 481-513: the step ends in the inner catch
StepThrows(action, o) == o = "throw" \/ TextContentThrows(action, o)

\* lines 472-513: the stepResult of step i
StepResult(i, action, o) ==
    [ stepNumber |-> i,
      action |-> action,
      \* stays false for screenshot and for a verify that finds no element
      passed |-> Bool(o = "ok" /\ ~StepThrows(action, o)),
      error |-> StepThrows(action, o),
      actualValue |-> CASE action = "verify" /\ StepThrows(action, o) -> "unset"
                        [] action = "verify" /\ o \in { "ok", "mismatch" } -> "text"
                        [] action = "verify" /\ o = "missing" -> "null"
                        [] OTHER -> "unset" ]

\* lines 509-513: the inner catch is the only place that fails the flow
StepFailsFlow(action, o) == StepThrows(action, o)

\* faulty variant: a failed goto breaks out of the loop
ContinueAfter_breakOnGoto(action, o) == ~(action = "goto" /\ o = "throw")

\* lines 470-516: whether the loop goes on to step i+1 after step i
ContinueAfter(action, o) == TRUE

RECURSIVE FlowLoop(_, _, _, _)
\* lines 470-516, from step i on; acc = [steps, passed, location]
FlowLoop(flow, outs, i, acc) ==
    IF i > Len(flow) THEN acc
    ELSE
        LET a == flow[i]
            o == outs[i]
            next == [ steps |-> Append(acc.steps, StepResult(i, a, o)),
                      passed |-> IF StepFailsFlow(a, o) THEN "false" ELSE acc.passed,
                      location |-> IF a = "goto"
                                   THEN GotoLocation(acc.location, FlowUrl,
                                                     IF o = "ok" THEN "200" ELSE "refused")
                                   ELSE acc.location ]
        IN  IF ContinueAfter(a, o)
            THEN FlowLoop(flow, outs, i + 1, next)
            ELSE next

\* faulty variant: the issue pushed whatever the flow's result
FlowIssues_always(iss, passed) == Append(iss, Issue("major", "User Flow", 0))

\* lines 522-530: one major issue for a failed flow
FlowIssues(iss, passed) ==
    IF ~Truthy(passed) THEN Append(iss, Issue("major", "User Flow", 0)) ELSE iss

\* runUserFlow(page, flow, issues): [flowResult, issues, location]
RunUserFlow(flow, outs, iss, loc) ==
    LET r == FlowLoop(flow, outs, 1,
                      [ steps |-> << >>, passed |-> "true", location |-> loc ])
    IN  [ flowResult |-> [ testName |-> "User Flow", passed |-> r.passed,
                           error |-> FALSE, steps |-> r.steps ],
          issues |-> FlowIssues(iss, r.passed),
          location |-> r.location ]

----------------------------------------------------------------------------
(* The probes.  Each takes the run's accumulators                          *)
(*   st = [results, issues, location, viewport]                            *)
(* and what the page answers, and gives the accumulators back with         *)
(*   threw:   a page operation threw inside the probe                      *)
(*   escaped: the error left the probe (no try/catch around it)            *)
(* A count of -1 stands for the DOM query throwing.                        *)

Counts == -1..MaxCount

Done(st, results, iss, threw, escaped) ==
    [ results |-> results, issues |-> iss, location |-> st.location,
      viewport |-> st.viewport, threw |-> threw, escaped |-> escaped ]

\* testConnectivity, lines 151-174
TestConnectivity(o) ==
    IF GotoThrows(o) THEN Result("Connectivity Test", "false", TRUE)
    ELSE Result("Connectivity Test", Bool(o = "200"), o # "200")

\* faulty variant: the connectivity issue is pushed as major
ConnectivityIssues_major(iss, r) ==
    IF ~Truthy(r.passed) THEN Append(iss, Issue("major", "Connectivity", 0)) ELSE iss

\* lines 46-53
ConnectivityIssues(iss, r) ==
    IF ~Truthy(r.passed) THEN Append(iss, Issue("critical", "Connectivity", 0)) ELSE iss

\* page.title(): a title, the empty title, a blank title, or a throw
Titles == { "Home", "", " ", "throw" }

\* lines 178-200: title && title.trim().length > 0
TitlePassed(title) ==
    CASE title = "" -> ""
      [] title = " " -> "false"
      [] OTHER -> "true"

TitleCheck(st, title) ==
    IF title = "throw"
    THEN [ results |-> Append(st.results, Result("Page Title Check", "false", TRUE)),
           issues |-> st.issues ]
    ELSE [ results |-> Append(st.results,
                              Result("Page Title Check", TitlePassed(title), FALSE)),
           issues |-> IF title \in { "", " " }
                      THEN Append(st.issues, Issue("minor", "SEO", 0))
                      ELSE st.issues ]

\* lines 203-229
BrokenImagesCheck(st, images) ==
    IF images = -1
    THEN [ results |-> Append(st.results, Result("Broken Images Check", "false", TRUE)),
           issues |-> st.issues ]
    ELSE [ results |-> Append(st.results,
                              Result("Broken Images Check", Bool(images = 0), FALSE)),
           issues |-> IF images > 0
                      THEN Append(st.issues, Issue("major", "Content", images))
                      ELSE st.issues ]

\* lines 239-243
JsErrorsResult(js) ==
    [ testName |-> "JavaScript Errors Check", passed |-> Bool(js = 0), error |-> FALSE,
      steps |-> << >>, details |-> [ errorCount |-> js ] ]

\* lines 232-253: js = -1 is page.waitForTimeout throwing, outside any try
JsErrorsCheck(st, js) ==
    IF js = -1
    THEN [ results |-> st.results, issues |-> st.issues ]
    ELSE [ results |-> Append(st.results, JsErrorsResult(js)),
           issues |-> IF js > 0
                      THEN Append(st.issues, Issue("critical", "JavaScript", js))
                      ELSE st.issues ]

\* runBasicTests, lines 176-254
RunBasicTests(st, title, images, js) ==
    LET a == TitleCheck(st, title)
        b == BrokenImagesCheck([ st EXCEPT !.results = a.results, !.issues = a.issues ],
                               images)
        c == JsErrorsCheck([ st EXCEPT !.results = b.results, !.issues = b.issues ], js)
    IN  Done(st, c.results, c.issues, title = "throw" \/ images = -1 \/ js = -1, js = -1)

\* faulty variant: the unimplemented suite reported as a failure
AuthPlaceholder_failed == Result("Authentication Tests", "false", FALSE)

\* lines 62-66
AuthPlaceholder == Result("Authentication Tests", "true", FALSE)

\* line 279: a tested link works when its status is exactly 200
LinkWorks(o) == o = "200"

RECURSIVE LinkLoop(_, _, _)
\* lines 276-292; acc = [working, broken, location]
LinkLoop(links, i, acc) ==
    IF i > Len(links) THEN acc
    ELSE LinkLoop(links, i + 1,
             [ working |-> acc.working + (IF LinkWorks(links[i]) THEN 1 ELSE 0),
               broken |-> acc.broken + (IF LinkWorks(links[i]) THEN 0 ELSE 1),
               location |-> GotoLocation(acc.location, LinkUrl, links[i]) ])

NavResult(passed, error, found, tested, working, broken) ==
    [ testName |-> "Navigation Links Test", passed |-> passed, error |-> error,
      steps |-> << >>,
      details |-> [ totalLinksFound |-> found, linksTestedCount |-> tested,
                    workingLinks |-> working, brokenLinks |-> broken ] ]

\* the catch of lines 319-325: a result without details
NavFailure == Result("Navigation Links Test", "false", TRUE)

\* faulty variant: the probe forgets to go back
ReturnLocation_stay(loc, url, ret) == loc

\* lines 316-317: where the page is after the return to the original URL
ReturnLocation(loc, url, ret) == GotoLocation(loc, url, ret)

\* faulty variant: every link found is tested
LinksToTest_all(links) == links

\* line 273: links.slice(0, 10)
LinksToTest(links) == SubSeq(links, 1, Min(LinkCap, Len(links)))

\* runNavigationTests, lines 256-326
\*   discovery: "ok" or "throw" (the page.evaluate that collects the links)
\*   links: the outcome of page.goto for each link found, in document order
\*   ret: the outcome of the final page.goto(url)
RunNavigationTests(st, discovery, links, ret) ==
    IF discovery = "throw"
    THEN Done(st, Append(st.results, NavFailure), st.issues, TRUE, FALSE)
    ELSE
        LET linksToTest == LinksToTest(links)
            l == LinkLoop(linksToTest, 1,
                          [ working |-> 0, broken |-> 0, location |-> st.location ])
            pushed == Append(st.results,
                             NavResult(Bool(l.broken = 0), FALSE, Len(links),
                                       Len(linksToTest), l.working, l.broken))
            iss == IF l.broken > 0
                   THEN Append(st.issues, Issue("major", "Navigation", l.broken))
                   ELSE st.issues
        IN  [ results |-> IF GotoThrows(ret) THEN Append(pushed, NavFailure) ELSE pushed,
              issues |-> iss,
              location |-> ReturnLocation(l.location, OrigUrl, ret),
              viewport |-> st.viewport,
              threw |-> GotoThrows(ret),
              escaped |-> FALSE ]

\* runFormTests, lines 328-397
\*   noSubmit: forms without a submit control (-1: the first page.evaluate throws)
\*   unlabeled: inputs without label or aria-label (-1: the second one throws)
RunFormTests(st, noSubmit, unlabeled) ==
    IF noSubmit = -1
    THEN Done(st, Append(st.results, Result("Form Structure Check", "false", TRUE)),
              st.issues, TRUE, FALSE)
    ELSE
        LET pushed == Append(st.results,
                             Result("Form Structure Check", Bool(noSubmit = 0), FALSE))
            iss1 == IF noSubmit > 0
                    THEN Append(st.issues, Issue("major", "Forms", noSubmit))
                    ELSE st.issues
        IN  IF unlabeled = -1
            THEN Done(st, Append(pushed, Result("Form Structure Check", "false", TRUE)),
                      iss1, TRUE, FALSE)
            ELSE Done(st, pushed,
                      IF unlabeled > 0
                      THEN Append(iss1, Issue("major", "Accessibility", unlabeled))
                      ELSE iss1,
                      FALSE, FALSE)

\* what one viewport of the responsive probe meets:
\*   "ok", "hscroll" (horizontal scroll), "zero" (a zero-area element), "both",
\*   "throwSet" (page.setViewport throws), "throwLoad" (page.reload throws)
ViewportOutcomes == { "ok", "hscroll", "zero", "both", "throwSet", "throwLoad" }

RECURSIVE ViewportLoop(_, _, _)
\* lines 408-452; acc = [passed, issues, location, viewport, threw]
ViewportLoop(outs, i, acc) ==
    IF i > Len(ViewportNames) THEN acc
    ELSE
        LET o == outs[i]
        IN  ViewportLoop(outs, i + 1,
              [ passed |-> acc.passed /\ o = "ok",
                issues |-> IF o \in { "hscroll", "both" }
                           THEN Append(acc.issues, Issue("major", "Responsive Design", 0))
                           ELSE acc.issues,
                location |-> IF o = "throwLoad" THEN ChromeError ELSE acc.location,
                viewport |-> IF o = "throwSet" THEN acc.viewport ELSE ViewportNames[i],
                threw |-> acc.threw \/ o \in { "throwSet", "throwLoad" } ])

\* runResponsiveTests, lines 399-459
RunResponsiveTests(st, outs) ==
    LET r == ViewportLoop(outs, 1,
                 [ passed |-> TRUE, issues |-> st.issues, location |-> st.location,
                   viewport |-> st.viewport, threw |-> FALSE ])
    IN  [ results |-> Append(st.results,
                             Result("Responsive Design Test", Bool(r.passed), FALSE)),
          issues |-> r.issues,
          location |-> r.location,
          viewport |-> r.viewport,
          threw |-> r.threw,
          escaped |-> FALSE ]

RECURSIVE Repeat(_, _)
Repeat(x, n) == IF n <= 0 THEN << >> ELSE << x >> \o Repeat(x, n - 1)

\* faulty variant: the UI findings pushed with a severity the summary does not count
UIQualityIssue_info == Issue("info", "UI/UX", 0)

\* lines 572-578: the issue pushed for each UI finding
UIQualityIssue == Issue("minor", "UI/UX", 0)

\* assessUIQuality, lines 535-586: found = the problems page.evaluate reports
\* (-1: it throws, and nothing catches it)
AssessUIQuality(st, found) ==
    IF found = -1
    THEN Done(st, st.results, st.issues, TRUE, TRUE)
    ELSE Done(st,
              Append(st.results, Result("UI Quality Assessment", Bool(found = 0), FALSE)),
              st.issues \o Repeat(UIQualityIssue, found),
              FALSE, FALSE)

\* what the performance assessment measures: "none", "slow" (load > 3000 ms),
\* "heap" (heap > 50 MB), "both", or "throw" (page.metrics / page.evaluate throws)
PerfOutcomes == { "none", "slow", "heap", "both", "throw" }

\* assessPerformance, lines 588-627
AssessPerformance(st, perf) ==
    IF perf = "throw"
    THEN Done(st, st.results, st.issues, TRUE, TRUE)
    ELSE Done(st,
              Append(st.results,
                     Result("Performance Assessment", Bool(perf = "none"), FALSE)),
              st.issues
                \o (IF perf \in { "slow", "both" }
                    THEN << Issue("major", "Performance", 0) >> ELSE << >>)
                \o (IF perf \in { "heap", "both" }
                    THEN << Issue("minor", "Performance", 0) >> ELSE << >>),
              FALSE, FALSE)

----------------------------------------------------------------------------
(* The summary, lines 99-107 *)

Summary(results, iss) ==
    [ totalTests |-> Len(results),
      passed |-> Cardinality({ i \in DOMAIN results : Truthy(results[i].passed) }),
      failed |-> Cardinality({ i \in DOMAIN results : Falsy(results[i].passed) }),
      issues |-> Len(iss),
      criticalIssues |-> Cardinality({ i \in DOMAIN iss : iss[i].severity = "critical" }),
      majorIssues |-> Cardinality({ i \in DOMAIN iss : iss[i].severity = "major" }),
      minorIssues |-> Cardinality({ i \in DOMAIN iss : iss[i].severity = "minor" }) ]

----------------------------------------------------------------------------
(* functionalQATool, lines 25-149 *)

Suites == { "basic", "auth", "forms", "navigation", "responsive", "comprehensive" }

----------------------------------------------------------------------------
(* generateQARecommendations, lines 629-658 *)

\* one recommendation line: a banner, a category line with its count, or the
\* positive confirmation
Line(kind, category, count) == [ line |-> kind, category |-> category, count |-> count ]
Banner(severity) == Line(severity, "", 0)
FocusLine(category, count) == Line("focus", category, count)
PositiveLine == Line("positive", "", 0)

RECURSIVE CategoryCounts(_, _, _)
\* lines 645-648: the reduce; acc holds [category, count] in the order in which
\* the categories were first met (the key order of the object)
CategoryCounts(iss, i, acc) ==
    IF i > Len(iss) THEN acc
    ELSE LET c == iss[i].category
             at == { j \in DOMAIN acc : acc[j].category = c }
         IN  CategoryCounts(iss, i + 1,
                 IF at = { }
                 THEN Append(acc, [ category |-> c, count |-> 1 ])
                 ELSE [ j \in DOMAIN acc |->
                          IF j \in at THEN [ acc[j] EXCEPT !.count = @ + 1 ]
                          ELSE acc[j] ])

\* faulty variant: the confirmation shown when nothing critical or major was found
ShowPositive_noMajor(summary) == summary.criticalIssues = 0 /\ summary.majorIssues = 0

\* line 654
ShowPositive(summary) == summary.issues = 0

GenerateQARecommendations(iss, summary) ==
    LET cats == CategoryCounts(iss, 1, << >>)
    IN  (IF summary.criticalIssues > 0 THEN << Banner("critical") >> ELSE << >>)
        \o (IF summary.majorIssues > 0 THEN << Banner("major") >> ELSE << >>)
        \o (IF summary.minorIssues > 0 THEN << Banner("minor") >> ELSE << >>)
        \o [ j \in DOMAIN cats |-> FocusLine(cats[j].category, cats[j].count) ]
        \o (IF ShowPositive(summary) THEN << PositiveLine >> ELSE << >>)

----------------------------------------------------------------------------
\* the userFlows arguments of the whole-run specification: none, one flow
\* (navigate, click, verify), and lists of two flows; between them every action,
\* with goto as first, middle and last step
RunFlowLists ==
    { << >>,
      << << "goto", "click", "verify" >> >>,
      << << "verify", "goto" >>, << "goto", "screenshot" >> >>,
      << << "wait", "goto", "type" >>, << "click" >> >> }

Dev(b) == IF b THEN 1 ELSE 0

\* the switch of lines 56-83: the first probe of the suite
SuiteFirst(mode) == IF mode = "comprehensive" THEN "basic" ELSE mode

\* faulty variant: forms and navigation swapped in the comprehensive suite
AfterProbe_swapped(p, mode) ==
    IF mode = "comprehensive"
    THEN CASE p = "basic" -> "forms"
           [] p = "forms" -> "navigation"
           [] p = "navigation" -> "responsive"
           [] OTHER -> "flows"
    ELSE "flows"

\* lines 77-82: the probe that follows probe p inside the suite, "flows" at its end
AfterProbe(p, mode) ==
    IF mode = "comprehensive"
    THEN CASE p = "basic" -> "navigation"
           [] p = "navigation" -> "forms"
           [] p = "forms" -> "responsive"
           [] OTHER -> "flows"
    ELSE "flows"

\* lines 86-97: the for-of loop over userFlows, then the two assessments
AfterFlows == "ui"
AfterUI == "performance"
AfterPerformance == "summary"

\* faulty variant: a failed connectivity test goes straight to the summary
AfterConnectivity_shortCircuit(mode, passed) ==
    IF Truthy(passed) THEN SuiteFirst(mode) ELSE "summary"

\* lines 44-56: the suite runs whatever the connectivity test found
AfterConnectivity(mode, passed) == SuiteFirst(mode)

\* entering the loop of lines 86-89 with n flows still to run
EnterFlows(n) == IF n = 0 THEN AfterFlows ELSE "flows"

Stage(next) == IF next = "flows" THEN EnterFlows(Len(userFlows)) ELSE next

St == [ results |-> qaResults, issues |-> issues, location |-> location,
        viewport |-> viewport ]

\* a probe returned r: the accumulators, and the catch of line 125 if it let an
\* error out
Probed(name, r, next, cost) ==
    /\ faults + cost <= MaxFaults
    /\ faults' = faults + cost
    /\ qaResults' = r.results
    /\ issues' = r.issues
    /\ location' = r.location
    /\ viewport' = r.viewport
    /\ trace' = Append(trace, name)
    /\ thrown' = IF r.threw THEN thrown \cup { name } ELSE thrown
    /\ pc' = IF r.escaped THEN "catch" ELSE Stage(next)
    /\ UNCHANGED << endpointTest, monitorVars, testSuite, userFlows, browser, closeCount, unitIn, response >>

\* console-monitor.ts lines 10-16: the filters' defaults
DefaultFilters == [ errors |-> TRUE, warnings |-> TRUE, network |-> TRUE,
                    performance |-> FALSE, security |-> TRUE ]

\* no testEndpointsTool invocation
NoEndpointTest == [ call |-> "none" ]

\* console-monitor.ts lines 29-33: the empty stores; no request but the one
\* being modelled
MonitorIdle(tool) ==
    /\ endpointTest = NoEndpointTest
    /\ toolName = tool
    /\ filters = DefaultFilters
    /\ interactions = << >>
    /\ step = 1
    /\ events = 0
    /\ consoleMessages = << >>
    /\ networkErrors = << >>
    /\ performanceMetrics = << >>
    /\ securityIssues = << >>
    /\ jsErrors = << >>

NoResponse == [ kind |-> "none" ]
Rejected == [ kind |-> "rejected" ]      \* the promise rejects: nothing is returned

Init ==
    /\ pc = "parse"
    /\ testSuite \in Suites
    /\ userFlows \in RunFlowLists
    /\ flowIdx = 1
    /\ browser = "none"
    /\ closeCount = 0
    /\ location = Blank
    /\ viewport = "default"
    /\ qaResults = << >>
    /\ issues = << >>
    /\ trace = << >>
    /\ thrown = { }
    /\ connFailed = FALSE
    /\ faults = 0
    /\ unitIn = [ call |-> "functionalQATool" ]
    /\ response = NoResponse
    /\ MonitorIdle("functional_qa")

\* a step that only moves the invocation on, at the price of `cost` faults
Move(to, cost) ==
    /\ faults + cost <= MaxFaults
    /\ faults' = faults + cost
    /\ pc' = to

\* line 26: FunctionalQAArgsSchema.parse(args), outside the try
Parse ==
    /\ pc = "parse"
    /\ \E valid \in BOOLEAN :
         /\ Move(IF valid THEN "launch" ELSE "done", Dev(~valid))
         /\ response' = IF valid THEN response ELSE Rejected
    /\ UNCHANGED << endpointTest, monitorVars, testSuite, userFlows, flowIdx, browser, closeCount, location,
                    viewport, qaResults, issues, trace, thrown, connFailed, unitIn >>

\* lines 35-38: puppeteer.launch
Launch ==
    /\ pc = "launch"
    /\ \E ok \in BOOLEAN :
         /\ Move(IF ok THEN "newPage" ELSE "catch", Dev(~ok))
         /\ browser' = IF ok THEN "open" ELSE browser
    /\ UNCHANGED << endpointTest, monitorVars, testSuite, userFlows, flowIdx, closeCount, location, viewport,
                    qaResults, issues, trace, thrown, connFailed, unitIn, response >>

\* lines 40-41: browser.newPage and page.setViewport(viewport)
NewPage ==
    /\ pc = "newPage"
    /\ \E ok \in BOOLEAN :
         /\ Move(IF ok THEN "connectivity" ELSE "catch", Dev(~ok))
         /\ viewport' = IF ok THEN RequestedViewport ELSE viewport
    /\ UNCHANGED << endpointTest, monitorVars, testSuite, userFlows, flowIdx, browser, closeCount, location,
                    qaResults, issues, trace, thrown, connFailed, unitIn, response >>

\* lines 43-53
Connectivity ==
    /\ pc = "connectivity"
    /\ \E o \in GotoOutcomes :
         LET r == TestConnectivity(o)
         IN  /\ Probed("connectivity",
                       [ results |-> Append(qaResults, r),
                         issues |-> ConnectivityIssues(issues, r),
                         location |-> GotoLocation(location, OrigUrl, o),
                         viewport |-> viewport,
                         threw |-> GotoThrows(o),
                         escaped |-> FALSE ],
                       AfterConnectivity(testSuite, r.passed),
                       Dev(o # "200"))
             /\ connFailed' = ~Truthy(r.passed)
    /\ UNCHANGED flowIdx

\* lines 57-59 and 78
Basic ==
    /\ pc = "basic"
    /\ \E title \in Titles, images \in Counts, js \in Counts :
         Probed("basic", RunBasicTests(St, title, images, js),
                AfterProbe("basic", testSuite),
                Dev(title # "Home") + Dev(images # 0) + Dev(js # 0))
    /\ UNCHANGED << endpointTest, monitorVars, flowIdx, connFailed >>

\* lines 60-67
Auth ==
    /\ pc = "auth"
    /\ Probed("auth", Done(St, Append(qaResults, AuthPlaceholder), issues, FALSE, FALSE),
              AfterProbe("auth", testSuite), 0)
    /\ UNCHANGED << endpointTest, monitorVars, flowIdx, connFailed >>

LinkSeqs == UNION { [ 1..n -> GotoOutcomes ] : n \in 0..MaxLinks }

\* lines 71-73 and 79
Navigation ==
    /\ pc = "navigation"
    /\ \E discovery \in { "ok", "throw" }, links \in LinkSeqs, ret \in GotoOutcomes :
         Probed("navigation", RunNavigationTests(St, discovery, links, ret),
                AfterProbe("navigation", testSuite),
                Dev(discovery = "throw") + Dev(ret # "200")
                  + Cardinality({ i \in DOMAIN links : links[i] # "200" }))
    /\ UNCHANGED << endpointTest, monitorVars, flowIdx, connFailed >>

\* lines 68-70 and 80
Forms ==
    /\ pc = "forms"
    /\ \E noSubmit \in Counts, unlabeled \in Counts :
         Probed("forms", RunFormTests(St, noSubmit, unlabeled),
                AfterProbe("forms", testSuite),
                Dev(noSubmit # 0) + Dev(unlabeled # 0))
    /\ UNCHANGED << endpointTest, monitorVars, flowIdx, connFailed >>

\* lines 74-76 and 81
Responsive ==
    /\ pc = "responsive"
    /\ \E outs \in [ DOMAIN ViewportNames -> ViewportOutcomes ] :
         Probed("responsive", RunResponsiveTests(St, outs),
                AfterProbe("responsive", testSuite),
                Cardinality({ i \in DOMAIN outs : outs[i] # "ok" }))
    /\ UNCHANGED << endpointTest, monitorVars, flowIdx, connFailed >>

\* lines 86-89: one iteration of the loop over userFlows
UserFlow ==
    /\ pc = "flows"
    /\ flowIdx <= Len(userFlows)
    /\ \E outs \in FlowOutcomes(userFlows[flowIdx]) :
         LET r == RunUserFlow(userFlows[flowIdx], outs, issues, location)
         IN  Probed("flow",
                    [ results |-> Append(qaResults, r.flowResult),
                      issues |-> r.issues,
                      location |-> r.location,
                      viewport |-> viewport,
                      threw |-> \E i \in DOMAIN outs :
                                   StepThrows(userFlows[flowIdx][i], outs[i]),
                      escaped |-> FALSE ],
                    IF flowIdx < Len(userFlows) THEN "flows" ELSE AfterFlows,
                    Cardinality({ i \in DOMAIN outs : outs[i] \notin { "ok", "none" } }))
    /\ flowIdx' = flowIdx + 1
    /\ UNCHANGED connFailed

\* lines 91-93
UIQuality ==
    /\ pc = "ui"
    /\ \E found \in Counts :
         Probed("ui", AssessUIQuality(St, found), AfterUI, Dev(found # 0))
    /\ UNCHANGED << endpointTest, monitorVars, flowIdx, connFailed >>

\* lines 95-97
Performance ==
    /\ pc = "performance"
    /\ \E perf \in PerfOutcomes :
         Probed("performance", AssessPerformance(St, perf), AfterPerformance,
                Dev(perf # "none"))
    /\ UNCHANGED << endpointTest, monitorVars, flowIdx, connFailed >>

\* lines 99-123
ReturnSummary ==
    /\ pc = "summary"
    /\ response' = [ kind |-> "summary", summary |-> Summary(qaResults, issues),
                     qaResults |-> qaResults, issues |-> issues,
                     recommendations |->
                         GenerateQARecommendations(issues, Summary(qaResults, issues)) ]
    /\ pc' = "finally"
    /\ UNCHANGED << endpointTest, monitorVars, testSuite, userFlows, flowIdx, browser, closeCount, location,
                    viewport, qaResults, issues, trace, thrown, connFailed, faults,
                    unitIn >>

\* lines 125-143: the error envelope carries only the two counts
CatchError ==
    /\ pc = "catch"
    /\ response' = [ kind |-> "error",
                     partialResults |-> [ completedTests |-> Len(qaResults),
                                          issuesFound |-> Len(issues) ] ]
    /\ pc' = "finally"
    /\ UNCHANGED << endpointTest, monitorVars, testSuite, userFlows, flowIdx, browser, closeCount, location,
                    viewport, qaResults, issues, trace, thrown, connFailed, faults,
                    unitIn >>

\* faulty variant: the browser is closed at the end of the try block only
CloseWanted_onSummary(b) == b # "none" /\ response.kind = "summary"

\* line 145: if (browser)
CloseWanted(b) == b # "none"

\* lines 144-148: browser.close() may itself throw, and then the promise rejects
Finally ==
    /\ pc = "finally"
    /\ IF CloseWanted(browser)
       THEN /\ closeCount' = closeCount + 1
            /\ browser' = "closed"
            /\ \E ok \in BOOLEAN :
                 /\ Move("done", Dev(~ok))
                 /\ response' = IF ok THEN response ELSE Rejected
       ELSE /\ Move("done", 0)
            /\ UNCHANGED << endpointTest, monitorVars, closeCount, browser, response >>
    /\ UNCHANGED << endpointTest, monitorVars, testSuite, userFlows, flowIdx, location, viewport, qaResults,
                    issues, trace, thrown, connFailed, unitIn >>

Next ==
    \/ Parse
    \/ Launch
    \/ NewPage
    \/ Connectivity
    \/ Basic
    \/ Auth
    \/ Navigation
    \/ Forms
    \/ Responsive
    \/ UserFlow
    \/ UIQuality
    \/ Performance
    \/ ReturnSummary
    \/ CatchError
    \/ Finally

Spec == Init /\ [][Next]_vars

----------------------------------------------------------------------------
(* runUserFlow on its own: one call, for every flow of at most MaxSteps    *)
(* steps and everything the page can answer to each step                   *)

Flows == UNION { [ 1..n -> Actions ] : n \in 0..MaxSteps }

\* where the page can be when a probe or flow starts: on the original URL, or
\* where a failed initial navigation left it
EntryLocations == { OrigUrl, ChromeError, Blank }

UnitInit(at) ==
    /\ pc = at
    /\ testSuite = "comprehensive"
    /\ flowIdx = 1
    /\ browser = "open"
    /\ closeCount = 0
    /\ location \in EntryLocations
    /\ viewport = RequestedViewport
    /\ qaResults = << >>
    /\ issues = << >>
    /\ trace = << >>
    /\ thrown = { }
    /\ connFailed = FALSE
    /\ faults = 0
    /\ unitIn = [ call |-> "none" ]
    /\ response = NoResponse
    /\ MonitorIdle("none")

InitFlow ==
    /\ UnitInit("callFlow")
    /\ \E f \in Flows : userFlows = << f >>

\* const flowResult = await runUserFlow(page, flow, issues), the flow result kept
\* in qaResults as line 88 does
CallRunUserFlow ==
    /\ pc = "callFlow"
    /\ \E outs \in FlowOutcomes(userFlows[1]) :
         LET r == RunUserFlow(userFlows[1], outs, issues, location)
         IN  /\ qaResults' = << r.flowResult >>
             /\ issues' = r.issues
             /\ location' = r.location
             /\ unitIn' = [ call |-> "runUserFlow", flow |-> userFlows[1],
                            outs |-> outs, entry |-> location ]
    /\ pc' = "flowReturned"
    /\ UNCHANGED << endpointTest, monitorVars, testSuite, userFlows, flowIdx, browser, closeCount, viewport,
                    trace, thrown, connFailed, faults, response >>

NextFlow == CallRunUserFlow

SpecFlow == InitFlow /\ [][NextFlow]_vars

----------------------------------------------------------------------------
(* runNavigationTests on its own: one call, for every list of at most      *)
(* MaxLinks links found and every answer to each navigation                *)

InitNav ==
    /\ UnitInit("callNav")
    /\ userFlows = << >>

\* await runNavigationTests(page, url, results, issues)
CallRunNavigationTests ==
    /\ pc = "callNav"
    /\ \E discovery \in { "ok", "throw" }, links \in LinkSeqs, ret \in GotoOutcomes :
         LET r == RunNavigationTests(St, discovery, links, ret)
         IN  /\ qaResults' = r.results
             /\ issues' = r.issues
             /\ location' = r.location
             /\ viewport' = r.viewport
             /\ unitIn' = [ call |-> "runNavigationTests", discovery |-> discovery,
                            links |-> links, ret |-> ret, entry |-> location ]
    /\ pc' = "navReturned"
    /\ UNCHANGED << endpointTest, monitorVars, testSuite, userFlows, flowIdx, browser, closeCount, trace,
                    thrown, connFailed, faults, response >>

NextNav == CallRunNavigationTests

SpecNav == InitNav /\ [][NextNav]_vars

----------------------------------------------------------------------------
(* runNavigationTests on a page with more links than the cap: every list of *)
(* at most LinkCap + MaxLinks links, each working or broken                 *)

ManyLinkSeqs == UNION { [ 1..n -> { "200", "404" } ] : n \in 0..(LinkCap + MaxLinks) }

InitLinks ==
    /\ UnitInit("callNav")
    /\ userFlows = << >>
    /\ location = OrigUrl

\* await runNavigationTests(page, url, results, issues)
CallRunNavigationTestsManyLinks ==
    /\ pc = "callNav"
    /\ \E links \in ManyLinkSeqs, ret \in { "200", "timeout" } :
         LET r == RunNavigationTests(St, "ok", links, ret)
         IN  /\ qaResults' = r.results
             /\ issues' = r.issues
             /\ location' = r.location
             /\ viewport' = r.viewport
             /\ unitIn' = [ call |-> "runNavigationTests", discovery |-> "ok",
                            links |-> links, ret |-> ret, entry |-> location ]
    /\ pc' = "navReturned"
    /\ UNCHANGED << endpointTest, monitorVars, testSuite, userFlows, flowIdx, browser, closeCount, trace,
                    thrown, connFailed, faults, response >>

NextLinks == CallRunNavigationTestsManyLinks

SpecLinks == InitLinks /\ [][NextLinks]_vars

----------------------------------------------------------------------------
(* generateQARecommendations on its own: one call, for every list of at    *)
(* most MaxIssues issues and the summary functionalQATool computes of it   *)

Severities == { "critical", "major", "minor" }
IssueCategories == { "Connectivity", "Forms", "UI/UX" }
IssueLists ==
    UNION { [ 1..n -> [ severity : Severities, category : IssueCategories,
                        count : { 0 } ] ] : n \in 0..MaxIssues }

InitRecs ==
    /\ pc = "callRecs"
    /\ testSuite = "comprehensive"
    /\ userFlows = << >>
    /\ flowIdx = 1
    /\ browser = "open"
    /\ closeCount = 0
    /\ location = OrigUrl
    /\ viewport = RequestedViewport
    /\ qaResults = << >>
    /\ issues \in IssueLists
    /\ trace = << >>
    /\ thrown = { }
    /\ connFailed = FALSE
    /\ faults = 0
    /\ unitIn = [ call |-> "none" ]
    /\ response = NoResponse
    /\ MonitorIdle("none")

\* line 119: generateQARecommendations(issues, summary)
CallGenerateQARecommendations ==
    /\ pc = "callRecs"
    /\ response' = [ kind |-> "recommendations",
                     recommendations |->
                         GenerateQARecommendations(issues, Summary(qaResults, issues)) ]
    /\ unitIn' = [ call |-> "generateQARecommendations" ]
    /\ pc' = "recsReturned"
    /\ UNCHANGED << endpointTest, qaVars, monitorVars, browser, closeCount, faults >>

NextRecs == CallGenerateQARecommendations

SpecRecs == InitRecs /\ [][NextRecs]_vars

----------------------------------------------------------------------------
(* The console monitor (src/src/tools/console-monitor.ts): consoleMonitorTool *)
(* opens a page, attaches its listeners, navigates, performs the caller's  *)
(* interactions, waits, audits accessibility and returns every signal it   *)
(* collected, or an error envelope.                                        *)

\* the filter settings tried: everything on, each flag alone off (the defaults
\* are everything on but performance), everything off
AllOn == [ errors |-> TRUE, warnings |-> TRUE, network |-> TRUE,
           performance |-> TRUE, security |-> TRUE ]
AllOff == [ errors |-> FALSE, warnings |-> FALSE, network |-> FALSE,
            performance |-> FALSE, security |-> FALSE ]
FilterSets ==
    { AllOn, AllOff } \cup { [ AllOn EXCEPT ![f] = FALSE ] : f \in DOMAIN AllOn }

InteractionLists == { << >>, << "click", "type" >>, << "navigate", "wait" >> }

\* what the browser can deliver to the page's listeners: a console message
\* (its type, and whether its text holds one of the security keywords of lines
\* 103-107), a failed request, a response with its status
ConsoleTypes == { "error", "warning", "log" }
ConsoleTexts == { "plain", "cors" }
ResponseStatuses == { 200, 404, 500 }
BrowserEvents ==
    [ kind : { "console" }, type : ConsoleTypes, text : ConsoleTexts ]
    \cup { [ kind |-> "requestfailed" ] }
    \cup [ kind : { "response" }, status : ResponseStatuses ]

\* a collected record; `event` is the ordinal of the browser event it was made
\* from (it stands for the record's text and timestamp)
Signal(type, severity, category, ev) ==
    [ type |-> type, severity |-> severity, category |-> category, event |-> ev ]

\* faulty variant: the listener keeps every message
ConsoleDropped_never(f, msg) == FALSE

\* lines 50-51: the console listener drops the message
ConsoleDropped(f, msg) ==
    \/ ~f.errors /\ msg.type = "error"
    \/ ~f.warnings /\ msg.type = "warning"

\* lines 53-61
ConsoleMessagesAfter(f, msgs, msg, ev) ==
    IF ConsoleDropped(f, msg) THEN msgs
    ELSE Append(msgs, [ type |-> msg.type, text |-> msg.text, event |-> ev ])

\* lines 64-68: the record of a console error, with the message's text
ErrorRecord(msg, ev) ==
    [ type |-> "error", message |-> msg.text, severity |-> "high",
      category |-> "JavaScript Error", event |-> ev ]

\* faulty variant: an error whose text is already recorded is not recorded again
JsErrorsAfter_dedup(f, errs, msg, ev) ==
    IF /\ ~ConsoleDropped(f, msg)
       /\ msg.type = "error"
       /\ \A i \in DOMAIN errs :
             "message" \in DOMAIN errs[i] => errs[i].message # msg.text
    THEN Append(errs, ErrorRecord(msg, ev))
    ELSE errs

\* lines 63-69
JsErrorsAfter(f, errs, msg, ev) ==
    IF ~ConsoleDropped(f, msg) /\ msg.type = "error"
    THEN Append(errs, ErrorRecord(msg, ev))
    ELSE errs

\* lines 102-107: text.includes('mixed content') || ... || text.includes('xss')
SecurityText(text) == text = "cors"

\* lines 100-116: the second console listener, attached when filters.security
SecurityIssuesAfter(f, sec, msg, ev) ==
    IF f.security /\ SecurityText(msg.text)
    THEN Append(sec, Signal("security_warning", "high", "Security Issue", ev))
    ELSE sec

\* faulty variant: server errors graded with the QA tool's vocabulary
HttpSeverity_critical(status) == IF status >= 500 THEN "critical" ELSE "medium"

\* line 92
HttpSeverity(status) == IF status >= 500 THEN "high" ELSE "medium"

\* faulty variant: only server errors are recorded
NetworkErrorsAfter_serverOnly(f, net, e, ev) ==
    IF ~f.network THEN net
    ELSE IF e.kind = "requestfailed"
         THEN Append(net, Signal("requestfailed", "medium", "Network Error", ev))
    ELSE IF e.kind = "response" /\ e.status >= 500
         THEN Append(net, Signal("response", HttpSeverity(e.status), "HTTP Error", ev))
    ELSE net

\* lines 73-97: the requestfailed and response listeners, attached when
\* filters.network
NetworkErrorsAfter(f, net, e, ev) ==
    IF ~f.network THEN net
    ELSE IF e.kind = "requestfailed"
         THEN Append(net, Signal("requestfailed", "medium", "Network Error", ev))
    ELSE IF e.kind = "response" /\ e.status >= 400
         THEN Append(net, Signal("response", HttpSeverity(e.status), "HTTP Error", ev))
    ELSE net

\* lines 150-158
InteractionError(action) ==
    [ type |-> "interaction_error", action |-> action, severity |-> "medium",
      category |-> "User Interaction Error" ]

\* lines 186-197 and 200-215: one finding per image without alt, then one per
\* input without label and aria-label
AltFinding(i) ==
    [ type |-> "accessibility", issue |-> "Missing alt text", element |-> i,
      severity |-> "medium", category |-> "Accessibility Issue" ]
LabelFinding(i) ==
    [ type |-> "accessibility", issue |-> "Input missing label", element |-> i,
      severity |-> "high", category |-> "Accessibility Issue" ]
AccessibilityIssues(m, n) ==
    [ i \in 1..m |-> AltFinding(i) ] \o [ i \in 1..n |-> LabelFinding(i) ]

\* lines 221-226
AllIssues(js, net, sec, acc) == js \o net \o sec \o acc

\* lines 228-232
SeverityCounts(all) ==
    [ high |-> Cardinality({ i \in DOMAIN all : all[i].severity = "high" }),
      medium |-> Cardinality({ i \in DOMAIN all : all[i].severity = "medium" }),
      low |-> Cardinality({ i \in DOMAIN all : all[i].severity = "low" }) ]

\* a functionalQATool invocation that is not running
QAIdle ==
    /\ testSuite = "basic"
    /\ userFlows = << >>
    /\ flowIdx = 1
    /\ location = Blank
    /\ viewport = "default"
    /\ qaResults = << >>
    /\ issues = << >>
    /\ trace = << >>
    /\ thrown = { }
    /\ connFailed = FALSE

InitMonitor ==
    /\ pc = "mParse"
    /\ endpointTest = NoEndpointTest
    /\ QAIdle
    /\ browser = "none"
    /\ closeCount = 0
    /\ faults = 0
    /\ unitIn = [ call |-> "consoleMonitorTool", log |-> << >> ]
    /\ response = NoResponse
    /\ toolName = "console_monitor"
    /\ filters \in FilterSets
    /\ interactions \in InteractionLists
    /\ step = 1
    /\ events = 0
    /\ consoleMessages = << >>
    /\ networkErrors = << >>
    /\ performanceMetrics = << >>
    /\ securityIssues = << >>
    /\ jsErrors = << >>

\* line 25: ConsoleMonitorArgsSchema.parse(args), outside the try
MParse ==
    /\ pc = "mParse"
    /\ \E valid \in BOOLEAN :
         /\ Move(IF valid THEN "mLaunch" ELSE "done", Dev(~valid))
         /\ response' = IF valid THEN response ELSE Rejected
    /\ UNCHANGED << endpointTest, qaVars, monitorVars, browser, closeCount, unitIn >>

\* lines 36-44: puppeteer.launch
MLaunch ==
    /\ pc = "mLaunch"
    /\ \E ok \in BOOLEAN :
         /\ Move(IF ok THEN "mNewPage" ELSE "mCatch", Dev(~ok))
         /\ browser' = IF ok THEN "open" ELSE browser
    /\ UNCHANGED << endpointTest, qaVars, monitorVars, closeCount, unitIn, response >>

\* lines 46-117: browser.newPage, then the listeners are attached
MNewPage ==
    /\ pc = "mNewPage"
    /\ \E ok \in BOOLEAN : Move(IF ok THEN "mGoto" ELSE "mCatch", Dev(~ok))
    /\ UNCHANGED << endpointTest, qaVars, monitorVars, browser, closeCount, unitIn, response >>

\* the stages at which the invocation awaits the page with its listeners
\* attached
Listening == { "mGoto", "mInteract", "mWait" }

\* history: what the page did to the session, in order (the events delivered,
\* the answer to the navigation and to each interaction)
Logged(x) == [ unitIn EXCEPT !.log = Append(@, x) ]

\* the browser delivers one event to the listeners of lines 49-117
PageEvent ==
    /\ pc \in Listening
    /\ faults + 1 <= MaxFaults
    /\ faults' = faults + 1
    /\ events' = events + 1
    /\ \E e \in BrowserEvents :
         /\ IF e.kind = "console"
            THEN /\ consoleMessages' =
                       ConsoleMessagesAfter(filters, consoleMessages, e, events')
                 /\ jsErrors' = JsErrorsAfter(filters, jsErrors, e, events')
                 /\ securityIssues' =
                       SecurityIssuesAfter(filters, securityIssues, e, events')
                 /\ UNCHANGED networkErrors
            ELSE /\ networkErrors' = NetworkErrorsAfter(filters, networkErrors, e, events')
                 /\ UNCHANGED << consoleMessages, jsErrors, securityIssues >>
         /\ unitIn' = Logged(e)
    /\ UNCHANGED << endpointTest, qaVars, pc, browser, closeCount, response, toolName, filters,
                    interactions, step, performanceMetrics >>

\* after the navigation: the interactions if there are any, else the wait
AfterGoto(n) == IF n > 0 THEN "mInteract" ELSE "mWait"

\* line 120: page.goto(url); only a throw matters, the status is not looked at
MGoto ==
    /\ pc = "mGoto"
    /\ \E o \in GotoOutcomes :
         /\ Move(IF GotoThrows(o) THEN "mCatch" ELSE AfterGoto(Len(interactions)),
                 Dev(o # "200"))
         /\ unitIn' = Logged([ kind |-> "goto", outcome |-> o ])
    /\ UNCHANGED << endpointTest, qaVars, monitorVars, browser, closeCount, response >>

\* faulty variant: a throwing interaction leaves the loop for the outer catch
AfterInteraction_abort(ok, s, n) ==
    IF ~ok THEN "mCatch" ELSE IF s = n THEN "mWait" ELSE "mInteract"

\* lines 124-160: the try and catch are inside the loop, so after interaction
\* s of n, thrown or not, comes the next one, and after the last the wait
AfterInteraction(ok, s, n) == IF s = n THEN "mWait" ELSE "mInteract"

\* lines 124-160: one interaction; a throw is recorded and the loop goes on
MInteract ==
    /\ pc = "mInteract"
    /\ \E ok \in BOOLEAN :
         /\ Move(AfterInteraction(ok, step, Len(interactions)), Dev(~ok))
         /\ jsErrors' = IF ok THEN jsErrors
                        ELSE Append(jsErrors, InteractionError(interactions[step]))
         /\ unitIn' = Logged([ kind |-> "interaction", step |-> step, ok |-> ok ])
    /\ step' = step + 1
    /\ UNCHANGED << endpointTest, qaVars, browser, closeCount, response, toolName, filters,
                    interactions, events, consoleMessages, networkErrors,
                    performanceMetrics, securityIssues >>

\* line 163: page.waitForTimeout(duration - elapsed)
MWait ==
    /\ pc = "mWait"
    /\ \E ok \in BOOLEAN : Move(IF ok THEN "mMetrics" ELSE "mCatch", Dev(~ok))
    /\ UNCHANGED << endpointTest, qaVars, monitorVars, browser, closeCount, unitIn, response >>

\* lines 166-179: page.metrics and the navigation entries, when
\* filters.performance
MMetrics ==
    /\ pc = "mMetrics"
    /\ IF filters.performance
       THEN \E ok \in BOOLEAN :
              /\ Move(IF ok THEN "mAudit" ELSE "mCatch", Dev(~ok))
              /\ performanceMetrics' =
                    IF ok THEN Append(performanceMetrics, [ type |-> "metrics" ])
                    ELSE performanceMetrics
       ELSE /\ Move("mAudit", 0)
            /\ UNCHANGED performanceMetrics
    /\ UNCHANGED << endpointTest, qaVars, browser, closeCount, unitIn, response, toolName, filters,
                    interactions, step, events, consoleMessages, networkErrors,
                    securityIssues, jsErrors >>

\* a key JSON.stringify leaves out
Undefined == "undefined"

\* lines 239-265: the value returned
MonitorResult(f, msgs, net, perf, inter, all) ==
    [ kind |-> "monitor",
      summary |-> [ totalIssues |-> Len(all), severityCounts |-> SeverityCounts(all) ],
      issues |-> all,
      consoleMessages |-> IF f.errors \/ f.warnings THEN msgs ELSE << >>,
      networkErrors |-> IF f.network THEN net ELSE << >>,
      performanceMetrics |-> IF f.performance THEN perf ELSE << >>,
      interactions |->
          IF Len(inter) > 0
          THEN [ performed |-> Len(inter),
                 errors |-> Cardinality({ i \in DOMAIN all :
                                            all[i].category = "User Interaction Error" }) ]
          ELSE Undefined ]

\* lines 182-265: the accessibility audit (m images without alt, n inputs
\* without label; -1: page.evaluate throws), then the result
MAudit ==
    /\ pc = "mAudit"
    /\ \E m, n \in Counts :
         IF m = -1 \/ n = -1
         THEN /\ m = -1 /\ n = -1
              /\ Move("mCatch", 1)
              /\ UNCHANGED response
         ELSE /\ Move("mFinally", Dev(m # 0) + Dev(n # 0))
              /\ response' =
                    MonitorResult(filters, consoleMessages, networkErrors,
                                  performanceMetrics, interactions,
                                  AllIssues(jsErrors, networkErrors, securityIssues,
                                            AccessibilityIssues(m, n)))
    /\ UNCHANGED << endpointTest, qaVars, monitorVars, browser, closeCount, unitIn >>

\* lines 267-286: the error envelope carries three counts
MCatch ==
    /\ pc = "mCatch"
    /\ response' = [ kind |-> "error",
                     partialResults |-> [ consoleMessages |-> Len(consoleMessages),
                                          networkErrors |-> Len(networkErrors),
                                          jsErrors |-> Len(jsErrors) ] ]
    /\ pc' = "mFinally"
    /\ UNCHANGED << endpointTest, qaVars, monitorVars, browser, closeCount, faults, unitIn >>

\* lines 287-291: browser.close() may itself throw, and then the promise rejects
MFinally ==
    /\ pc = "mFinally"
    /\ IF browser # "none"
       THEN /\ closeCount' = closeCount + 1
            /\ browser' = "closed"
            /\ \E ok \in BOOLEAN :
                 /\ Move("done", Dev(~ok))
                 /\ response' = IF ok THEN response ELSE Rejected
       ELSE /\ Move("done", 0)
            /\ UNCHANGED << closeCount, browser, response >>
    /\ UNCHANGED << endpointTest, qaVars, monitorVars, unitIn >>

NextMonitor ==
    \/ MParse
    \/ MLaunch
    \/ MNewPage
    \/ PageEvent
    \/ MGoto
    \/ MInteract
    \/ MWait
    \/ MMetrics
    \/ MAudit
    \/ MCatch
    \/ MFinally

SpecMonitor == InitMonitor /\ [][NextMonitor]_vars

----------------------------------------------------------------------------
(* The accessibility audits on their own: one page with at most            *)
(* MaxFindings images without alt, inputs without label and elements with  *)
(* small text, audited by functionalQATool's runFormTests (in the suites   *)
(* that run it) and assessUIQuality, or by consoleMonitorTool              *)

Findings == 0..MaxFindings

\* the switch of lines 56-83: the suites that call runFormTests
RunsForms(mode) == mode \in { "forms", "comprehensive" }

InitAudit ==
    /\ pc = "callAudit"
    /\ \E tool \in { "functional_qa", "console_monitor" } : MonitorIdle(tool)
    /\ IF toolName = "functional_qa" THEN testSuite \in Suites ELSE testSuite = "basic"
    /\ userFlows = << >>
    /\ flowIdx = 1
    /\ browser = "open"
    /\ closeCount = 0
    /\ location = OrigUrl
    /\ viewport = RequestedViewport
    /\ qaResults = << >>
    /\ issues = << >>
    /\ trace = << >>
    /\ thrown = { }
    /\ connFailed = FALSE
    /\ faults = 0
    /\ \E m, n \in Findings, t \in 0..1 :
          unitIn = [ call |-> "audit", images |-> m, inputs |-> n, smallText |-> t ]
    /\ response = NoResponse

\* functional-qa.ts lines 56-83: await runFormTests(page, qaResults, issues) in
\* the suites that have it; the page's forms all have a submit control
AuditForms ==
    /\ pc = "callAudit"
    /\ toolName = "functional_qa"
    /\ IF RunsForms(testSuite)
       THEN LET r == RunFormTests(St, 0, unitIn.inputs)
            IN  qaResults' = r.results /\ issues' = r.issues
       ELSE UNCHANGED << qaResults, issues >>
    /\ pc' = "callUI"
    /\ UNCHANGED << endpointTest, monitorVars, testSuite, userFlows, flowIdx, browser, closeCount,
                    location, viewport, trace, thrown, connFailed, faults, unitIn,
                    response >>

\* functional-qa.ts lines 91-93: const uiResults = await assessUIQuality(page,
\* issues); its problems are the small texts and the images without alt
AuditUI ==
    /\ pc = "callUI"
    /\ LET r == AssessUIQuality(St, unitIn.smallText + unitIn.images)
       IN  qaResults' = r.results /\ issues' = r.issues
    /\ pc' = "auditReturned"
    /\ UNCHANGED << endpointTest, monitorVars, testSuite, userFlows, flowIdx, browser, closeCount,
                    location, viewport, trace, thrown, connFailed, faults, unitIn,
                    response >>

\* console-monitor.ts lines 182-265: the accessibility checks of a session
\* that collected nothing else
AuditMonitor ==
    /\ pc = "callAudit"
    /\ toolName = "console_monitor"
    /\ response' =
          MonitorResult(filters, consoleMessages, networkErrors, performanceMetrics,
                        interactions,
                        AllIssues(jsErrors, networkErrors, securityIssues,
                                  AccessibilityIssues(unitIn.images, unitIn.inputs)))
    /\ pc' = "auditReturned"
    /\ UNCHANGED << endpointTest, qaVars, monitorVars, browser, closeCount, faults, unitIn >>

NextAudit ==
    \/ AuditForms
    \/ AuditUI
    \/ AuditMonitor

SpecAudit == InitAudit /\ [][NextAudit]_vars

----------------------------------------------------------------------------
(* The server's CallToolRequestSchema handler (src/deployment-testing.md,  *)
(* lines 424-459): it awaits the tool named by the request inside a try and *)
(* turns whatever the tool throws into an isError reply.                   *)

\* lines 429-444: the tools of the switch
OtherTools == { "health_check", "capture_screenshot", "monitor_process_logs",
                "detect_framework", "test_endpoints", "generate_test_report" }
ToolNames == { "functional_qa", "console_monitor" } \cup OtherTools

\* a name the switch does not know
UnknownTool == "unknown_tool"

\* lines 447-457: the reply made in the catch
IsError == [ kind |-> "isError" ]

\* the arguments tried through the server
ServerSuites == Suites
ServerFlowLists == { << >>, << << "goto", "click", "verify" >> >> }

InitServer ==
    /\ pc = "handler"
    /\ endpointTest = NoEndpointTest
    /\ toolName \in ToolNames \cup { UnknownTool }
    /\ browser = "none"
    /\ closeCount = 0
    /\ faults = 0
    /\ unitIn = [ call |-> "CallTool", log |-> << >> ]
    /\ response = NoResponse
    /\ flowIdx = 1
    /\ location = Blank
    /\ viewport = "default"
    /\ qaResults = << >>
    /\ issues = << >>
    /\ trace = << >>
    /\ thrown = { }
    /\ connFailed = FALSE
    /\ step = 1
    /\ events = 0
    /\ consoleMessages = << >>
    /\ networkErrors = << >>
    /\ performanceMetrics = << >>
    /\ securityIssues = << >>
    /\ jsErrors = << >>
    /\ IF toolName = "functional_qa"
       THEN testSuite \in ServerSuites /\ userFlows \in ServerFlowLists
       ELSE testSuite = "basic" /\ userFlows = << >>
    /\ IF toolName = "console_monitor"
       THEN filters \in FilterSets /\ interactions \in InteractionLists
       ELSE filters = DefaultFilters /\ interactions = << >>

\* where the switch of lines 428-445 sends the request
ToolEntry(n) ==
    CASE n = "functional_qa" -> "parse"
      [] n = "console_monitor" -> "mParse"
      [] n \in OtherTools -> "other"
      [] OTHER -> "replied"

\* lines 424-445: the tool is called; an unknown name throws at line 444 and the
\* catch of line 446 replies at once
CallTool ==
    /\ pc = "handler"
    /\ pc' = ToolEntry(toolName)
    /\ response' = IF toolName \in ToolNames THEN response ELSE IsError
    /\ UNCHANGED << endpointTest, qaVars, monitorVars, browser, closeCount, faults, unitIn >>

\* lines 430-439 and 444: one of the other tools runs; it returns a value or
\* its promise rejects
OtherTool ==
    /\ pc = "other"
    /\ \E ok \in BOOLEAN :
         /\ Move("done", Dev(~ok))
         /\ response' = IF ok THEN [ kind |-> "value" ] ELSE Rejected
    /\ UNCHANGED << endpointTest, qaVars, monitorVars, browser, closeCount, unitIn >>

\* faulty variant: the handler awaits the tool outside any try
HandlerReply_noCatch(r) == r

\* lines 427-457: return await tool(args), or the catch's isError reply when
\* the tool's promise rejected
HandlerReply(r) == IF r = Rejected THEN IsError ELSE r

HandlerReturn ==
    /\ pc = "done"
    /\ response' = HandlerReply(response)
    /\ pc' = "replied"
    /\ UNCHANGED << endpointTest, qaVars, monitorVars, browser, closeCount, faults, unitIn >>

NextServer ==
    \/ CallTool
    \/ OtherTool
    \/ HandlerReturn
    \/ Next
    \/ NextMonitor

SpecServer == InitServer /\ [][NextServer]_vars

----------------------------------------------------------------------------
(* functionalQATool on a page that raises script errors at any moment of   *)
(* the session.  The only pageerror listener is the one runBasicTests      *)
(* attaches at line 233, and the array it fills is read once, at line 239, *)
(* after the 2 s wait: the errors raised inside that window are the js     *)
(* answer of Basic, the others are the events of PageError.                *)

\* the stages at which the page has been loaded by the connectivity test
PageLoaded == { "basic", "auth", "navigation", "forms", "responsive", "flows", "ui",
                "performance", "summary" }

InitErrors ==
    /\ Init
    /\ userFlows \in ServerFlowLists

\* the page raises a script error outside the window of lines 233-237
PageError ==
    /\ pc \in PageLoaded
    /\ faults + 1 <= MaxFaults
    /\ faults' = faults + 1
    /\ events' = events + 1
    /\ UNCHANGED << endpointTest, qaVars, pc, browser, closeCount, unitIn, response, toolName,
                    filters, interactions, step, consoleMessages, networkErrors,
                    performanceMetrics, securityIssues, jsErrors >>

NextErrors ==
    \/ PageError
    \/ Next

SpecErrors == InitErrors /\ [][NextErrors]_vars

----------------------------------------------------------------------------
(* The script-error collectors of the two tools, one occurrence at a time: *)
(* consoleMonitorTool as above, with the errors filter on or off, and the  *)
(* window of runBasicTests (functional-qa.ts lines 231-253), which attaches *)
(* its pageerror listener, waits 2 s and reads what the listener pushed    *)

\* error.message of a pageerror event
ErrorMessages == { "TypeError: x is undefined", "ReferenceError: y is not defined" }

InitCollectors ==
    \/ /\ InitMonitor
       /\ filters \in { AllOn, [ AllOn EXCEPT !.errors = FALSE ] }
    \/ /\ UnitInit("attach")
       /\ userFlows = << >>

\* functional-qa.ts lines 232-235: const jsErrors = []; page.on('pageerror', ...)
AttachCollector ==
    /\ pc = "attach"
    /\ jsErrors' = << >>
    /\ pc' = "window"
    /\ UNCHANGED << endpointTest, qaVars, browser, closeCount, faults, unitIn, response, toolName,
                    filters, interactions, step, events, consoleMessages,
                    networkErrors, performanceMetrics, securityIssues >>

\* functional-qa.ts line 234: the listener, during the wait of line 237
WindowError ==
    /\ pc = "window"
    /\ faults + 1 <= MaxFaults
    /\ faults' = faults + 1
    /\ events' = events + 1
    /\ \E message \in ErrorMessages : jsErrors' = Append(jsErrors, message)
    /\ UNCHANGED << endpointTest, qaVars, pc, browser, closeCount, unitIn, response, toolName,
                    filters, interactions, step, consoleMessages, networkErrors,
                    performanceMetrics, securityIssues >>

\* functional-qa.ts lines 237-253: the wait is over, the array is read
ReadCollector ==
    /\ pc = "window"
    /\ LET r == JsErrorsCheck(St, Len(jsErrors))
       IN  qaResults' = r.results /\ issues' = r.issues
    /\ pc' = "basicReturned"
    /\ UNCHANGED << endpointTest, monitorVars, testSuite, userFlows, flowIdx, browser, closeCount,
                    location, viewport, trace, thrown, connFailed, faults, unitIn,
                    response >>

NextCollectors ==
    \/ AttachCollector
    \/ WindowError
    \/ ReadCollector
    \/ NextMonitor

SpecCollectors == InitCollectors /\ [][NextCollectors]_vars

----------------------------------------------------------------------------
(* Two invocations at the same time.  Node runs one of them until it awaits, *)
(* then the other; each has the variables its function declares (the browser, *)
(* the page and its listeners, the stores, the results) and nothing is        *)
(* declared outside the functions.  The variables hold the invocation that is *)
(* running, unitIn.waiting holds the one that awaits.                         *)

\* console-monitor.ts lines 24-46 and functional-qa.ts lines 25-41, 176, 232:
\* what one invocation declares, the history of its own page included
Locals ==
    [ pc |-> pc, browser |-> browser, closeCount |-> closeCount,
      response |-> response, toolName |-> toolName, filters |-> filters,
      interactions |-> interactions, step |-> step, events |-> events,
      consoleMessages |-> consoleMessages, networkErrors |-> networkErrors,
      performanceMetrics |-> performanceMetrics, securityIssues |-> securityIssues,
      jsErrors |-> jsErrors, qaResults |-> qaResults, issues |-> issues,
      log |-> unitIn.log ]

\* a consoleMonitorTool invocation about to start
MonitorLocals(f, inter) ==
    [ pc |-> "mParse", browser |-> "none", closeCount |-> 0, response |-> NoResponse,
      toolName |-> "console_monitor", filters |-> f, interactions |-> inter,
      step |-> 1, events |-> 0, consoleMessages |-> << >>, networkErrors |-> << >>,
      performanceMetrics |-> << >>, securityIssues |-> << >>, jsErrors |-> << >>,
      qaResults |-> << >>, issues |-> << >>, log |-> << >> ]

\* a functionalQATool invocation about to attach its pageerror listener
CollectorLocals ==
    [ MonitorLocals(DefaultFilters, << >>) EXCEPT
        !.pc = "attach", !.browser = "open", !.toolName = "functional_qa" ]

\* faulty variant: the network store is declared once, outside the functions
Resumed_sharedStore(f) == [ f EXCEPT !.networkErrors = networkErrors ]

\* console-monitor.ts lines 29-33, functional-qa.ts line 232: the stores are
\* declared inside the function, so an invocation resumes with its own
Resumed(f) == f

InitPair ==
    /\ endpointTest = NoEndpointTest
    /\ testSuite = "comprehensive"
    /\ userFlows = << >>
    /\ flowIdx = 1
    /\ location = OrigUrl
    /\ viewport = RequestedViewport
    /\ trace = << >>
    /\ thrown = { }
    /\ connFailed = FALSE
    /\ faults = 1      \* the pair gets one unusual answer less than a single run
    /\ \E inter \in InteractionLists \ { << >> } :
         /\ pc = "mParse"
         /\ browser = "none"
         /\ closeCount = 0
         /\ response = NoResponse
         /\ toolName = "console_monitor"
         /\ filters = AllOn
         /\ interactions = inter
         /\ step = 1
         /\ events = 0
         /\ consoleMessages = << >>
         /\ networkErrors = << >>
         /\ performanceMetrics = << >>
         /\ securityIssues = << >>
         /\ jsErrors = << >>
         /\ qaResults = << >>
         /\ issues = << >>
    /\ \E w \in { MonitorLocals(AllOn, << "click", "type" >>), CollectorLocals } :
         unitIn = [ call |-> "pair", log |-> << >>, waiting |-> w ]

\* the running invocation awaits and the waiting one resumes
Switch ==
    /\ LET f == Resumed(unitIn.waiting)
       IN  /\ pc' = f.pc
           /\ browser' = f.browser
           /\ closeCount' = f.closeCount
           /\ response' = f.response
           /\ toolName' = f.toolName
           /\ filters' = f.filters
           /\ interactions' = f.interactions
           /\ step' = f.step
           /\ events' = f.events
           /\ consoleMessages' = f.consoleMessages
           /\ networkErrors' = f.networkErrors
           /\ performanceMetrics' = f.performanceMetrics
           /\ securityIssues' = f.securityIssues
           /\ jsErrors' = f.jsErrors
           /\ qaResults' = f.qaResults
           /\ issues' = f.issues
           /\ unitIn' = [ call |-> unitIn.call, log |-> f.log, waiting |-> Locals ]
    /\ UNCHANGED << endpointTest, testSuite, userFlows, flowIdx, location, viewport,
                    trace, thrown, connFailed, faults >>

NextPair ==
    \/ Switch
    \/ NextCollectors

SpecPair == InitPair /\ [][NextPair]_vars

----------------------------------------------------------------------------
(* The report generator (src/unnamed/part_003): the Issues Found section of *)
(* generateHTMLReport, given the issues of a test run                       *)

\* what an issue handed to the report may carry: a severity of the QA tool, one
\* of the console monitor, or none; a category or none
ReportSeverities == { "critical", "major", "minor", "high", Undefined }
ReportCategories == { "Forms", Undefined }
ReportIssueLists ==
    UNION { [ 1..n -> [ severity : ReportSeverities, category : ReportCategories ] ] :
              n \in 0..MaxIssues }

\* line 184: issues.filter(issue => issue.severity === severity), each issue
\* with its place in testResults.issues
Numbered(list) == [ i \in DOMAIN list |-> [ issue |-> list[i], index |-> i ] ]
HasSeverity(severity, list) ==
    LET Is(x) == x.issue.severity = severity
    IN  SelectSeq(Numbered(list), Is)

\* lines 191-197: the card of an issue, under the heading of its severity
Card(x, severity) ==
    [ severity |-> severity,
      category |-> IF x.issue.category = Undefined THEN "General" ELSE x.issue.category,
      index |-> x.index ]

\* lines 183-199: ['critical', 'major', 'minor'].map(...), the cards in order
SeverityCards(list, severity) ==
    LET sel == HasSeverity(severity, list)
    IN  [ i \in DOMAIN sel |-> Card(sel[i], severity) ]
IssueCards(list) ==
    SeverityCards(list, "critical") \o SeverityCards(list, "major")
        \o SeverityCards(list, "minor")

InitReport ==
    /\ pc = "callReport"
    /\ testSuite = "comprehensive"
    /\ userFlows = << >>
    /\ flowIdx = 1
    /\ browser = "none"
    /\ closeCount = 0
    /\ location = Blank
    /\ viewport = "default"
    /\ qaResults = << >>
    /\ issues \in ReportIssueLists
    /\ trace = << >>
    /\ thrown = { }
    /\ connFailed = FALSE
    /\ faults = 0
    /\ unitIn = [ call |-> "none" ]
    /\ response = NoResponse
    /\ MonitorIdle("none")

\* line 500: reportContent = generateHTMLReport(testResults)
CallGenerateHTMLReport ==
    /\ pc = "callReport"
    /\ response' = [ kind |-> "report", cards |-> IssueCards(issues) ]
    /\ unitIn' = [ call |-> "generateHTMLReport" ]
    /\ pc' = "reportReturned"
    /\ UNCHANGED << endpointTest, qaVars, monitorVars, browser, closeCount, faults >>

NextReport == CallGenerateHTMLReport

SpecReport == InitReport /\ [][NextReport]_vars

----------------------------------------------------------------------------
(* The endpoint tester (src/src/tools/test-endpoints.ts): testEndpointsTool *)
(* cuts the endpoints into batches of maxConcurrency, starts the requests   *)
(* of a batch together, awaits them all and appends their results.          *)
(* maxConcurrency is z.number(): any number, so also 0, -1 and 1.5.  The    *)
(* model counts maxConcurrency and the loop variable i in halves.           *)

\* the numbers of the model, in halves: -1, 0, 0.5, 1, 1.5, 2, 3
Concurrencies == { -2, 0, 1, 2, 3, 4, 6 }

\* ToIntegerOrInfinity of a number given in halves: truncation towards zero
ToInteger(h) == IF h >= 0 THEN h \div 2 ELSE -((-h) \div 2)

\* Array.prototype.slice: a negative index counts from the end, both are
\* clamped to 0..len; the indices (from 1) of the elements taken
RelativeIndex(k, len) ==
    IF k < 0 THEN (IF len + k < 0 THEN 0 ELSE len + k)
    ELSE IF k > len THEN len ELSE k
SliceIndices(len, start, end) ==
    LET from == RelativeIndex(ToInteger(start), len)
        to == RelativeIndex(ToInteger(end), len)
    IN  [ k \in 1..(IF to > from THEN to - from ELSE 0) |-> from + k ]

\* what an endpoint answers: the expected status, another status, or nothing
\* (axios throws: refused, timed out)
EndpointAnswers == { "expected", "unexpected", "error" }
EndpointLists == UNION { [ 1..n -> EndpointAnswers ] : n \in 0..MaxEndpoints }

\* lines 46-90: testSingleEndpoint never rejects, it resolves to a result
EndpointResult(e, answer) ==
    [ endpoint |-> e,
      status |-> IF answer = "error" THEN 0 ELSE 200,
      success |-> answer = "expected",
      error |-> answer = "error" ]

InitEndpoints ==
    /\ pc = "eBatches"
    /\ QAIdle
    /\ browser = "none"
    /\ closeCount = 0
    /\ faults = 0
    /\ unitIn = [ call |-> "testEndpointsTool" ]
    /\ response = NoResponse
    /\ toolName = "test_endpoints"
    /\ filters = DefaultFilters
    /\ interactions = << >>
    /\ step = 1
    /\ events = 0
    /\ consoleMessages = << >>
    /\ networkErrors = << >>
    /\ performanceMetrics = << >>
    /\ securityIssues = << >>
    /\ jsErrors = << >>
    /\ \E list \in EndpointLists, mc \in Concurrencies :
         endpointTest = [ call |-> "testEndpointsTool",
                          endpoints |-> list,        \* their answers, in order
                          maxConcurrency |-> mc,     \* in halves
                          i |-> 0,                   \* in halves
                          batches |-> << >>,         \* the endpoints' indices
                          batch |-> 1,
                          pending |-> { },
                          settled |-> { },
                          results |-> << >> ]

EndpointsStep(next, to) ==
    /\ endpointTest' = next
    /\ pc' = to
    /\ UNCHANGED << qaVars, monitorVars, browser, closeCount, faults, unitIn, response >>

\* lines 93-95: for (let i = 0; i < endpoints.length; i += maxConcurrency)
\* batches.push(endpoints.slice(i, i + maxConcurrency)).  The array can grow
\* without end: the model keeps its first MaxBatches entries and lets i go no
\* further below zero than the number of endpoints.
BuildBatch ==
    /\ pc = "eBatches"
    /\ LET t == endpointTest
           n == Len(t.endpoints)
           slice == SliceIndices(n, t.i, t.i + t.maxConcurrency)
           j == t.i + t.maxConcurrency
       IN  IF t.i < 2 * n
           THEN EndpointsStep(
                    [ t EXCEPT !.batches = IF Len(@) < MaxBatches + 2 * n
                                           THEN Append(@, slice) ELSE @,
                               !.i = IF j < -(2 * n) THEN t.i ELSE j ],
                    "eBatches")
           ELSE EndpointsStep(t, "eNext")

\* lines 97-98: for (const batch of batches) batch.map(testSingleEndpoint):
\* every request of the batch is started before anything is awaited
StartBatch ==
    /\ pc = "eNext"
    /\ LET t == endpointTest
       IN  IF t.batch <= Len(t.batches)
           THEN EndpointsStep(
                    [ t EXCEPT !.pending = { t.batches[t.batch][k] :
                                               k \in DOMAIN t.batches[t.batch] },
                               !.settled = { } ],
                    "eAwait")
           ELSE EndpointsStep(t, "eSummary")

\* lines 46-90: one request of the batch settles, in any order
Settle ==
    /\ pc = "eAwait"
    /\ \E e \in endpointTest.pending :
         EndpointsStep(
             [ endpointTest EXCEPT
                 !.pending = @ \ { e },
                 !.settled = @ \cup { EndpointResult(e, endpointTest.endpoints[e]) } ],
             "eAwait")

\* the results of a batch, in the order of the batch
BatchResults(batch, settled) ==
    [ k \in DOMAIN batch |-> CHOOSE r \in settled : r.endpoint = batch[k] ]

\* lines 99-100: await Promise.all(batchPromises); results.push(...batchResults)
PushBatchResults ==
    /\ pc = "eAwait"
    /\ endpointTest.pending = { }
    /\ LET t == endpointTest
       IN  EndpointsStep(
               [ t EXCEPT !.results = @ \o BatchResults(t.batches[t.batch], t.settled),
                          !.settled = { },
                          !.batch = @ + 1 ],
               "eNext")

\* lines 103-150: the statistics and the value returned
Summarise ==
    /\ pc = "eSummary"
    /\ LET r == endpointTest.results
       IN  response' =
              [ kind |-> "endpoints",
                stats |-> [ total |-> Len(r),
                            passed |-> Cardinality({ k \in DOMAIN r : r[k].success }),
                            failed |-> Cardinality({ k \in DOMAIN r : ~r[k].success }) ],
                results |-> r ]
    /\ pc' = "done"
    /\ UNCHANGED << endpointTest, qaVars, monitorVars, browser, closeCount, faults,
                    unitIn >>

NextEndpoints ==
    \/ BuildBatch
    \/ StartBatch
    \/ Settle
    \/ PushBatchResults
    \/ Summarise

SpecEndpoints == InitEndpoints /\ [][NextEndpoints]_vars

\* Node runs the loop and every settled promise's continuation
SpecEndpointsFair == SpecEndpoints /\ WF_vars(NextEndpoints)

----------------------------------------------------------------------------
(* The monitoring wait of consoleMonitorTool (console-monitor.ts line 163), *)
(* for every duration and every time the navigation and the interactions    *)
(* took, in seconds, and the rest of the invocation after it                *)

\* line 163: duration - (Date.now() - startTime)
RemainingWait(duration, elapsed) == duration - elapsed

InitWait ==
    /\ pc = "mWaitCall"
    /\ QAIdle
    /\ endpointTest = NoEndpointTest
    /\ browser = "open"
    /\ closeCount = 0
    /\ faults = 0
    /\ \E d \in 1..MaxSeconds, e \in 0..(MaxSeconds + 2) :
         unitIn = [ call |-> "consoleMonitorTool", log |-> << >>,
                    duration |-> d, elapsed |-> e ]
    /\ response = NoResponse
    /\ toolName = "console_monitor"
    /\ filters = AllOn
    /\ interactions = << >>
    /\ step = 1
    /\ events = 0
    /\ consoleMessages = << >>
    /\ networkErrors = << >>
    /\ performanceMetrics = << >>
    /\ securityIssues = << >>
    /\ jsErrors = << >>

\* line 163: await page.waitForTimeout(duration - elapsed); puppeteer hands the
\* number to setTimeout, which fires at once for a delay below 1 ms
RequestWait ==
    /\ pc = "mWaitCall"
    /\ LET ms == RemainingWait(unitIn.duration, unitIn.elapsed)
       IN  unitIn' = [ call |-> unitIn.call, log |-> unitIn.log,
                       duration |-> unitIn.duration, elapsed |-> unitIn.elapsed,
                       requested |-> ms,
                       waited |-> IF ms < 0 THEN 0 ELSE ms ]
    /\ pc' = "mMetrics"
    /\ UNCHANGED << endpointTest, qaVars, monitorVars, browser, closeCount, faults,
                    response >>

NextWait ==
    \/ RequestWait
    \/ MMetrics
    \/ MAudit
    \/ MCatch
    \/ MFinally

SpecWait == InitWait /\ [][NextWait]_vars

----------------------------------------------------------------------------
(* Vocabulary of the properties *)

\* the probe a TestResult comes from
ProbeOf(testName) ==
    CASE testName = "Connectivity Test" -> "connectivity"
      [] testName \in { "Page Title Check", "Broken Images Check",
                        "JavaScript Errors Check" } -> "basic"
      [] testName = "Authentication Tests" -> "auth"
      [] testName = "Navigation Links Test" -> "navigation"
      [] testName = "Form Structure Check" -> "forms"
      [] testName = "Responsive Design Test" -> "responsive"
      [] testName = "User Flow" -> "flow"
      [] testName = "UI Quality Assessment" -> "ui"
      [] OTHER -> "performance"

SuiteProbes(mode) ==
    IF mode = "comprehensive"
    THEN << "basic", "navigation", "forms", "responsive" >>
    ELSE << mode >>

\* suite, then the custom flows, then the two assessments
FlowsThenAssessments(mode, flows) ==
    << "connectivity" >> \o SuiteProbes(mode) \o Repeat("flow", Len(flows))
        \o << "ui", "performance" >>

\* suite, then the two assessments, then the custom flows
AssessmentsThenFlows(mode, flows) ==
    << "connectivity" >> \o SuiteProbes(mode) \o << "ui", "performance" >>
        \o Repeat("flow", Len(flows))

\* position of the first occurrence of x in s, Len(s) + 1 when absent
FirstAt(s, x) ==
    IF \E i \in DOMAIN s : s[i] = x
    THEN CHOOSE i \in DOMAIN s : s[i] = x /\ \A j \in 1..(i - 1) : s[j] # x
    ELSE Len(s) + 1

\* the results appear in the order in which `order` lists their probes
ResultsFollow(results, order) ==
    \A i, j \in DOMAIN results :
        i < j => FirstAt(order, ProbeOf(results[i].testName))
                    <= FirstAt(order, ProbeOf(results[j].testName))

Returned == response.kind = "summary"

----------------------------------------------------------------------------
(* Properties of functionalQATool (specification Spec) *)

\* C1: in every summary returned, for every suite mode, flow list and probe
\* outcome, passed + failed = totalTests, and totalTests is the number of
\* TestResults accumulated in the run.
C1_PassedPlusFailedIsTotal ==
    Returned =>
        /\ response.summary.passed + response.summary.failed
              = response.summary.totalTests
        /\ response.summary.totalTests = Len(qaResults)

\* a summary over a result whose `passed` is the empty string, next to passed ones
C1_Witness ==
    /\ Returned
    /\ \E i \in DOMAIN response.qaResults : response.qaResults[i].passed = ""
    /\ response.summary.passed > 0
    /\ response.summary.failed > 1

\* C2: in every run that launched a browser, whether it ends with a summary or
\* with an error, browser.close() is invoked exactly once, and only at the end.
C2_CloseExactlyOnce ==
    /\ closeCount <= 1
    /\ (pc # "done" => closeCount = 0)
    /\ (pc = "done" /\ browser # "none" => closeCount = 1)

\* a run that ended with the error envelope because an assessment threw
C2_Witness ==
    /\ pc = "done"
    /\ response.kind = "error"
    /\ "ui" \in thrown
    /\ closeCount = 1

\* C3: an error thrown inside any probe or assessment is recorded as a failed
\* TestResult of that probe, every probe scheduled after it still runs, and
\* the invocation returns the full summary.
C3_ProbeErrorsContained ==
    (pc = "finally" /\ thrown # { }) =>
        /\ Returned
        /\ trace = FlowsThenAssessments(testSuite, userFlows)
        /\ \A p \in thrown :
              \E i \in DOMAIN qaResults :
                  ProbeOf(qaResults[i].testName) = p /\ Falsy(qaResults[i].passed)

FlowResults == SelectSeq(qaResults, LAMBDA r : r.testName = "User Flow")

ConnectivityIssuesIn(iss) ==
    { i \in DOMAIN iss : iss[i].category = "Connectivity" }

\* C7 as claimed: when the initial navigation fails the summary holds exactly
\* one critical Connectivity issue and no TestResult but the connectivity test.
C7_OnlyConnectivityResult ==
    (Returned /\ connFailed) =>
        /\ Cardinality(ConnectivityIssuesIn(response.issues)) = 1
        /\ \A i \in ConnectivityIssuesIn(response.issues) :
              response.issues[i].severity = "critical"
        /\ \A i \in DOMAIN response.qaResults :
              response.qaResults[i].testName = "Connectivity Test"

\* C7 as amended: when the initial navigation fails and the run returns its
\* summary, the issues hold exactly one Connectivity issue, critical and first,
\* and the results start with the failed connectivity test, the only one of
\* that name, followed by the results of the probes that ran afterwards.
C7_OneConnectivityIssue ==
    (Returned /\ connFailed) =>
        /\ ConnectivityIssuesIn(response.issues) = { 1 }
        /\ response.issues[1].severity = "critical"
        /\ response.qaResults[1].testName = "Connectivity Test"
        /\ Falsy(response.qaResults[1].passed)
        /\ \A i \in DOMAIN response.qaResults :
              response.qaResults[i].testName = "Connectivity Test" => i = 1
        /\ Len(response.qaResults) > 1

\* a summary after a refused initial navigation
C7_Witness ==
    /\ Returned
    /\ connFailed
    /\ "connectivity" \in thrown
    /\ Len(response.qaResults) > 2

\* C8: the connectivity test is the first probe and the first TestResult in
\* every suite mode, and its failure does not short-circuit: the probe after it
\* is attempted in every run, and a run that returns its summary attempted the
\* suite's probes, every custom flow and both assessments.
C8_ConnectivityFirstNoShortCircuit ==
    /\ (trace # << >> => trace[1] = "connectivity")
    /\ (qaResults # << >> => qaResults[1].testName = "Connectivity Test")
    /\ \A i \in DOMAIN trace : i > 1 => trace[i] # "connectivity"
    /\ (connFailed /\ pc \in { "finally", "done" } => Len(trace) >= 2)
    /\ (connFailed /\ Returned =>
          /\ Range(SuiteProbes(testSuite)) \cup { "ui", "performance" } \subseteq Range(trace)
          /\ Cardinality({ i \in DOMAIN trace : trace[i] = "flow" }) = Len(userFlows))

\* a comprehensive run with flows that returns its summary after a failed
\* connectivity test
C8_Witness ==
    /\ Returned
    /\ connFailed
    /\ testSuite = "comprehensive"
    /\ Len(userFlows) = 2
    /\ Len(trace) = 9

\* C9 as claimed: in comprehensive mode the order is basic, navigation, forms,
\* responsive, UI quality, performance, custom flows, and the TestResults come
\* in that order.
C9_FlowsAfterAssessments ==
    testSuite = "comprehensive" =>
        /\ IsPrefix(trace, AssessmentsThenFlows(testSuite, userFlows))
        /\ ResultsFollow(qaResults, AssessmentsThenFlows(testSuite, userFlows))

\* C9 as amended: in comprehensive mode the order is basic, navigation, forms,
\* responsive, the custom flows, UI quality, performance, and the TestResults
\* come in that order.
C9_FlowsBeforeAssessments ==
    testSuite = "comprehensive" =>
        /\ IsPrefix(trace, FlowsThenAssessments(testSuite, userFlows))
        /\ (Returned => trace = FlowsThenAssessments(testSuite, userFlows))
        /\ ResultsFollow(qaResults, FlowsThenAssessments(testSuite, userFlows))

\* a comprehensive summary with flow results ahead of the assessments' results
C9_Witness ==
    /\ Returned
    /\ testSuite = "comprehensive"
    /\ Len(userFlows) > 0
    /\ \E i \in DOMAIN response.qaResults :
          /\ response.qaResults[i].testName = "User Flow"
          /\ response.qaResults[i + 1].testName = "UI Quality Assessment"

----------------------------------------------------------------------------
(* Properties of runUserFlow (specification SpecFlow) *)

FlowReturned == pc = "flowReturned"

\* a step failed: the page threw, the verified text did not match, or the
\* verified element was missing
StepFailed(o) == o \in { "throw", "mismatch", "missing" }

\* C4: the flow result has passed = false if and only if at least one of its
\* step results has passed = false, a verify step whose comparison fails
\* without throwing included.
C4_FlowFailedIffStepFailed ==
    FlowReturned =>
        (qaResults[1].passed = "false"
            <=> \E i \in DOMAIN qaResults[1].steps :
                    qaResults[1].steps[i].passed = "false")

\* C5: when a click, type, wait or verify step fails, the result still has one
\* entry per declared step, in declaration order, the failed step has
\* passed = false, every later step carries its own outcome, and the flow's
\* passed is false.
C5_LaterStepsRunFlowFails ==
    FlowReturned =>
        \A i \in DOMAIN unitIn.flow :
            (unitIn.flow[i] \in { "click", "type", "wait", "verify" }
                /\ StepFailed(unitIn.outs[i]))
            => /\ Len(qaResults[1].steps) = Len(unitIn.flow)
               /\ \A j \in DOMAIN qaResults[1].steps :
                     /\ qaResults[1].steps[j].stepNumber = j
                     /\ qaResults[1].steps[j].action = unitIn.flow[j]
               /\ qaResults[1].steps[i].passed = "false"
               /\ \A j \in (i + 1)..Len(unitIn.flow) :
                     qaResults[1].steps[j].passed = Bool(unitIn.outs[j] = "ok")
               /\ qaResults[1].passed = "false"

----------------------------------------------------------------------------
(* Properties of runNavigationTests (specification SpecNav) *)

NavReturned == pc = "navReturned"

LinkFailed(o) == o \in { "404", "refused", "timeout" }

\* the links the probe visits: the first LinkCap of those found
TestedLinks == SubSeq(unitIn.links, 1, Min(LinkCap, Len(unitIn.links)))

FailedLinks == Cardinality({ i \in DOMAIN TestedLinks : LinkFailed(TestedLinks[i]) })

NavigationIssuesIn(iss) == { i \in DOMAIN iss : iss[i].category = "Navigation" }

\* C11: one run of runNavigationTests produces at most one Navigation issue:
\* exactly one, of severity major, whose broken-link count is the number of
\* tested links that answered with a failing status or raised a transport
\* error when that number is positive, and none when every tested link works.
C11_OneNavigationIssueCountingFailedLinks ==
    (NavReturned /\ unitIn.discovery = "ok") =>
        /\ Cardinality(NavigationIssuesIn(issues)) <= 1
        /\ FailedLinks > 0 =>
              \E i \in DOMAIN issues :
                  issues[i] = Issue("major", "Navigation", FailedLinks)
        /\ FailedLinks = 0 => NavigationIssuesIn(issues) = { }

----------------------------------------------------------------------------
(* Properties of a request served through the handler (specification       *)
(* SpecServer)                                                             *)

Replied == pc = "replied"

\* the values a caller can get: a tool's result, a tool's error envelope, the
\* handler's isError reply
ReplyKinds == { "summary", "monitor", "value", "error", "isError" }

Reports(field, records) == field \in DOMAIN response /\ response[field] = records

\* C13: when functionalQATool or consoleMonitorTool fails part-way, the value
\* it returns still holds the TestResults and the issues or signals captured
\* before the fatal point, the records themselves.
C13_PartialRecordsReported ==
    response.kind = "error" =>
        /\ (toolName = "functional_qa" /\ qaResults # << >>)
              => Reports("qaResults", qaResults)
        /\ (toolName = "functional_qa" /\ issues # << >>)
              => Reports("issues", issues)
        /\ (toolName = "console_monitor" /\ consoleMessages # << >>)
              => Reports("consoleMessages", consoleMessages)
        /\ (toolName = "console_monitor" /\ networkErrors # << >>)
              => Reports("networkErrors", networkErrors)
        /\ (toolName = "console_monitor"
              /\ AllIssues(jsErrors, networkErrors, securityIssues, << >>) # << >>)
              => Reports("issues",
                         AllIssues(jsErrors, networkErrors, securityIssues, << >>))

\* the issue records of a returned result
ReturnedIssues ==
    IF response.kind \in { "summary", "monitor" } THEN Range(response.issues) ELSE { }

----------------------------------------------------------------------------
(* Properties of generateQARecommendations (specification SpecRecs) *)

RecsReturned == pc = "recsReturned"

SomeIssue(severity) == \E i \in DOMAIN issues : issues[i].severity = severity

\* the banners due, in the order critical, major, minor
BannersDue ==
    SelectSeq(<< Banner("critical"), Banner("major"), Banner("minor") >>,
              LAMBDA b : SomeIssue(b.line))

CategoriesPresent == { issues[i].category : i \in DOMAIN issues }

IssuesOf(category) ==
    Cardinality({ i \in DOMAIN issues : issues[i].category = category })

\* C15: generateQARecommendations returns the critical banner iff some issue
\* is critical, then the major banner iff some issue is major, then the minor
\* banner iff some issue is minor, then exactly one line per distinct category
\* present carrying that category's issue count, then the positive
\* confirmation if and only if there is no issue.
C15_BannersCategoriesConfirmation ==
    RecsReturned =>
        LET recs == response.recommendations
            nb == Len(BannersDue)
            nc == Cardinality(CategoriesPresent)
            np == IF issues = << >> THEN 1 ELSE 0
        IN  /\ Len(recs) = nb + nc + np
            /\ SubSeq(recs, 1, nb) = BannersDue
            /\ \A c \in CategoriesPresent :
                  Cardinality({ k \in (nb + 1)..(nb + nc) :
                                  recs[k] = FocusLine(c, IssuesOf(c)) }) = 1
            /\ \A k \in (nb + 1)..(nb + nc) : recs[k].line = "focus"
            /\ np = 1 => recs[Len(recs)] = PositiveLine

\* two banners, a category met twice and another met once
C15_Witness ==
    /\ RecsReturned
    /\ response.recommendations =
          << Banner("critical"), Banner("minor"),
             FocusLine("UI/UX", 2), FocusLine("Connectivity", 1) >>

----------------------------------------------------------------------------
(* More properties of runUserFlow (specification SpecFlow) *)

\* C16: runUserFlow appends exactly one issue, of severity major, for a flow
\* whose result is failed, however many of its steps failed, and no issue for
\* a flow whose result is passed.
C16_OneMajorIssuePerFailedFlow ==
    FlowReturned =>
        IF qaResults[1].passed = "false"
        THEN /\ Len(issues) = 1
             /\ issues[1].severity = "major"
             /\ issues[1].category = "User Flow"
        ELSE issues = << >>

\* a flow with two failed steps got its single issue
C16_Witness ==
    /\ FlowReturned
    /\ Cardinality({ i \in DOMAIN qaResults[1].steps :
                       qaResults[1].steps[i].error }) >= 2
    /\ qaResults[1].passed = "false"
    /\ Len(issues) = 1

----------------------------------------------------------------------------
(* More properties of a whole run (specification Spec) *)

BuiltInProbes == { "basic", "navigation", "forms", "responsive" }

\* C18: in suite mode auth the suite-selection stage contributes exactly one
\* TestResult, the placeholder with passed = true, right after the
\* connectivity result, and no issue; no basic, navigation, forms or
\* responsive probe runs.
C18_AuthPlaceholderOnly ==
    testSuite = "auth" =>
        /\ Range(trace) \cap BuiltInProbes = { }
        /\ \A i \in DOMAIN qaResults : ProbeOf(qaResults[i].testName) \notin BuiltInProbes
        /\ "auth" \in Range(trace) =>
              /\ { i \in DOMAIN qaResults : ProbeOf(qaResults[i].testName) = "auth" } = { 2 }
              /\ qaResults[2].testName = "Authentication Tests"
              /\ qaResults[2].passed = "true"
        /\ (trace # << >> /\ trace[Len(trace)] = "auth") =>
              Len(issues) = Cardinality(ConnectivityIssuesIn(issues))
        /\ \A i \in DOMAIN issues :
              issues[i].category \in { "Connectivity", "User Flow", "UI/UX", "Performance" }

\* an auth run with flows returned its summary after a failed connectivity test
C18_Witness ==
    /\ Returned
    /\ testSuite = "auth"
    /\ connFailed
    /\ Len(userFlows) > 0
    /\ response.qaResults[2] = AuthPlaceholder
    /\ Len(response.qaResults) > 3

----------------------------------------------------------------------------
(* Properties of the accessibility audits (specification SpecAudit) *)

AuditReturned == pc = "auditReturned"

\* the issue records the tool yields for the page
Yielded == IF toolName = "console_monitor" THEN response.issues ELSE issues

\* the findings filed under accessibility (consoleMonitorTool names the
\* category 'Accessibility Issue')
AccessibilityFindings(severity) ==
    { i \in DOMAIN Yielded :
        /\ Yielded[i].category \in { "Accessibility", "Accessibility Issue" }
        /\ Yielded[i].severity = severity }

\* C19: a page with m images lacking alternative text and n form inputs
\* lacking both a label and an accessible name yields at least m + n distinct
\* accessibility findings, a minor one per image and a major one per input,
\* under category Accessibility.
C19_AccessibilityFindingPerElement ==
    AuditReturned =>
        /\ Cardinality(AccessibilityFindings("minor")) >= unitIn.images
        /\ Cardinality(AccessibilityFindings("major")) >= unitIn.inputs

----------------------------------------------------------------------------
(* Properties of the script-error collector of functionalQATool            *)
(* (specification SpecErrors)                                              *)

\* how many times the session attached its pageerror listener: once per call
\* of runBasicTests
CollectorAttachments == Cardinality({ i \in DOMAIN trace : trace[i] = "basic" })

\* the script errors the returned issues account for
ScriptErrorsReported ==
    IF \E i \in DOMAIN response.issues : response.issues[i].category = "JavaScript"
    THEN (CHOOSE i \in Range(response.issues) : i.category = "JavaScript").count
    ELSE 0

\* C20: in functionalQATool the script-error collector is attached exactly
\* once per session and is active in every suite mode for the whole session: a
\* script error raised by the page is captured whichever mode was requested.
C20_ScriptErrorCollectorAlwaysOn ==
    Returned =>
        /\ CollectorAttachments = 1
        /\ ScriptErrorsReported >= events

----------------------------------------------------------------------------
(* Properties of the script-error collectors (specification SpecCollectors) *)

\* the console messages of type error the page sent to the monitor
ErrorOccurrences ==
    Cardinality({ i \in DOMAIN unitIn.log :
                    unitIn.log[i].kind = "console" /\ unitIn.log[i].type = "error" })

JavaScriptErrorRecords ==
    Cardinality({ i \in DOMAIN response.issues :
                    response.issues[i].category = "JavaScript Error" })

C22_NoScriptErrorLost ==
    (Returned /\ events > 0)
        => \E i \in DOMAIN response.issues : response.issues[i].category = "JavaScript"


----------------------------------------------------------------------------
(* Properties of consoleMonitorTool (specification SpecMonitor) *)

\* the records of the returned issues made from the browser event number ev
RecordsOfEvent(ev) ==
    { i \in DOMAIN response.issues :
        "event" \in DOMAIN response.issues[i] /\ response.issues[i].event = ev }

\* C23: no signal is duplicated in consoleMonitorTool: one browser event (a
\* console message, a failed request, a response) contributes at most one
\* record to the returned issues, whatever the filters and the message text.
C23_OneRecordPerBrowserEvent ==
    response.kind = "monitor"
        => \A ev \in 1..events : Cardinality(RecordsOfEvent(ev)) <= 1


\* the browser events delivered so far, in order: EventLog[ev] is event ev
IsBrowserEvent(x) == x.kind \in { "console", "requestfailed", "response" }
EventLog == SelectSeq(unitIn.log, IsBrowserEvent)

\* the collector stores of lines 29-33
Stores == << consoleMessages, networkErrors, performanceMetrics, securityIssues,
             jsErrors >>

\* the console messages of the given type the page has sent
ConsoleEvents(type) ==
    { ev \in DOMAIN EventLog :
        EventLog[ev].kind = "console" /\ EventLog[ev].type = type }

\* some store holds a record made from one of the events evs
Captured(evs) ==
    \E s \in DOMAIN Stores : \E i \in DOMAIN Stores[s] :
        "event" \in DOMAIN Stores[s][i] /\ Stores[s][i].event \in evs

\* the collector of a category has stored nothing: no console record of the
\* type and no JavaScript Error record (errors, warnings), an empty store
\* (network, performance, security)
NoConsoleRecord(type) ==
    /\ \A i \in DOMAIN consoleMessages : consoleMessages[i].type # type
    /\ type = "error" => \A i \in DOMAIN jsErrors :
                            jsErrors[i].category # "JavaScript Error"
CollectorsOffAreEmpty ==
    /\ ~filters.errors => NoConsoleRecord("error")
    /\ ~filters.warnings => NoConsoleRecord("warning")
    /\ ~filters.network => networkErrors = << >>
    /\ ~filters.performance => performanceMetrics = << >>
    /\ ~filters.security => securityIssues = << >>

\* what the result shows of the categories switched off
ResultHidesOff ==
    /\ ~filters.errors =>
          /\ \A i \in DOMAIN response.consoleMessages :
                response.consoleMessages[i].type # "error"
          /\ \A i \in DOMAIN response.issues :
                response.issues[i].category # "JavaScript Error"
    /\ ~filters.warnings =>
          \A i \in DOMAIN response.consoleMessages :
             response.consoleMessages[i].type # "warning"
    /\ ~filters.network =>
          /\ response.networkErrors = << >>
          /\ \A i \in DOMAIN response.issues :
                response.issues[i].category \notin { "Network Error", "HTTP Error" }
    /\ ~filters.performance => response.performanceMetrics = << >>
    /\ ~filters.security =>
          \A i \in DOMAIN response.issues :
             response.issues[i].category # "Security Issue"

\* C24 (as stated): a disabled flag suppresses its category at capture time:
\* for each of errors, warnings, network, performance and security, when the
\* flag is false no event of that category is ever appended to any collector
\* store, so none appears in the returned issues, consoleMessages,
\* networkErrors or performanceMetrics.
C24_DisabledFlagSuppressesAtCapture ==
    /\ toolName = "console_monitor" => CollectorsOffAreEmpty
    /\ response.kind = "monitor" => ResultHidesOff
    /\ ~filters.errors => ~Captured(ConsoleEvents("error"))
    /\ ~filters.warnings => ~Captured(ConsoleEvents("warning"))

\* C24 (amended): a disabled flag switches its own collector off at capture
\* time: no console record of type error or warning and no JavaScript Error
\* record, no network record, no performance metrics, no Security Issue record
\* is ever stored or returned while its flag is false; a console error or
\* warning whose text carries a security keyword is still stored, as a Security
\* Issue, by the security collector while the security flag is on.
C24_DisabledCollectorStoresNothing ==
    /\ toolName = "console_monitor" => CollectorsOffAreEmpty
    /\ response.kind = "monitor" => ResultHidesOff
    /\ \A type \in { "error", "warning" } :
          (~filters[type \o "s"] /\ Captured(ConsoleEvents(type)))
             => /\ filters.security
                /\ \E ev \in ConsoleEvents(type) :
                      /\ SecurityText(EventLog[ev].text)
                      /\ \E i \in DOMAIN securityIssues : securityIssues[i].event = ev

\* with the errors flag off the page sent an error about CORS: the result
\* holds no error record, and the Security Issue made from the message
C24_Witness ==
    /\ response.kind = "monitor"
    /\ ~filters.errors
    /\ \E ev \in ConsoleEvents("error") : SecurityText(EventLog[ev].text)
    /\ jsErrors = << >>
    /\ consoleMessages = << >>
    /\ Len(response.issues) = 1
    /\ response.issues[1].category = "Security Issue"


\* the answers the page gave to the interactions so far, in order
IsInteraction(x) == x.kind = "interaction"
InteractionLog == SelectSeq(unitIn.log, IsInteraction)
FailedInteractions == { i \in DOMAIN InteractionLog : ~InteractionLog[i].ok }

\* the initial navigation was answered, by a throw or not
NavigationThrew ==
    \E i \in DOMAIN unitIn.log :
        unitIn.log[i].kind = "goto" /\ GotoThrows(unitIn.log[i].outcome)
NavigationDone ==
    \E i \in DOMAIN unitIn.log :
        unitIn.log[i].kind = "goto" /\ ~GotoThrows(unitIn.log[i].outcome)

InteractionErrorRecords(records) ==
    { i \in DOMAIN records : records[i].category = "User Interaction Error" }

\* C26: in consoleMonitorTool a failing interaction is recorded as one
\* failed-step record and never aborts the invocation: the remaining
\* interactions and the monitoring wait still run, and the reported interaction
\* error count is the number of failed interactions; a failure of the initial
\* navigation aborts the whole invocation.
C26_InteractionFailureRecordedNavigationAborts ==
    /\ Cardinality(InteractionErrorRecords(jsErrors)) = Cardinality(FailedInteractions)
    /\ (NavigationDone /\ pc # "mInteract")
          => Len(InteractionLog) = Len(interactions)
    /\ pc = "mInteract"
          => /\ Len(InteractionLog) = step - 1
             /\ step <= Len(interactions)
    /\ (response.kind = "monitor" /\ Len(interactions) > 0)
          => /\ response.interactions.performed = Len(interactions)
             /\ response.interactions.errors = Cardinality(FailedInteractions)
             /\ Cardinality(InteractionErrorRecords(response.issues))
                   = Cardinality(FailedInteractions)
    /\ NavigationThrew
          => /\ InteractionLog = << >>
             /\ pc \in { "mCatch", "mFinally", "done" }
             /\ response.kind # "monitor"

\* the first of two interactions failed, the second ran, and the result
\* reports one interaction error
C26_Witness ==
    /\ response.kind = "monitor"
    /\ Len(InteractionLog) = 2
    /\ ~InteractionLog[1].ok
    /\ InteractionLog[2].ok
    /\ response.interactions = [ performed |-> 2, errors |-> 1 ]


----------------------------------------------------------------------------
(* Properties of two invocations at the same time (specification SpecPair) *)

\* the record was made from an event of the invocation's own page
FromOwnEvent(r) ==
    /\ r.event \in DOMAIN EventLog
    /\ LET e == EventLog[r.event]
       IN  IF "category" \notin DOMAIN r
           THEN e.kind = "console" /\ e.type = r.type /\ e.text = r.text
           ELSE CASE r.category = "JavaScript Error" ->
                       e.kind = "console" /\ e.type = "error" /\ e.text = r.message
                  [] r.category = "Security Issue" ->
                       e.kind = "console" /\ SecurityText(e.text)
                  [] r.category = "Network Error" -> e.kind = "requestfailed"
                  [] r.category = "HTTP Error" -> e.kind = "response" /\ e.status >= 400
                  [] OTHER -> FALSE

AllFromOwnEvents(records) ==
    \A i \in DOMAIN records :
        "event" \in DOMAIN records[i] => FromOwnEvent(records[i])

\* C25: two invocations running at the same time, in any interleaving of
\* their steps and browser events, use their own stores: every record an
\* invocation holds or returns was made from an event of its own page or from
\* its own interactions, and its counts are those of its own events.
C25_InvocationsShareNothing ==
    /\ toolName = "console_monitor"
          => /\ \A s \in DOMAIN Stores : AllFromOwnEvents(Stores[s])
             /\ Cardinality(InteractionErrorRecords(jsErrors))
                   = Cardinality(FailedInteractions)
    /\ response.kind = "monitor"
          => /\ AllFromOwnEvents(response.issues)
             /\ AllFromOwnEvents(response.consoleMessages)
             /\ JavaScriptErrorRecords = ErrorOccurrences
             /\ Cardinality(InteractionErrorRecords(response.issues))
                   = Cardinality(FailedInteractions)
    /\ (toolName = "functional_qa" /\ pc \in { "window", "basicReturned" })
          => Len(jsErrors) = events
    /\ (toolName = "functional_qa" /\ pc = "basicReturned")
          => qaResults[Len(qaResults)].details.errorCount = events

\* both invocations have returned: the one whose page logged an error reports
\* it, the other one, which ran in between, reports nothing
C25_Witness ==
    /\ "waiting" \in DOMAIN unitIn
    /\ response.kind = "monitor"
    /\ JavaScriptErrorRecords = 1
    /\ Len(response.issues) = 1
    /\ \/ /\ unitIn.waiting.response.kind = "monitor"
          /\ unitIn.waiting.response.issues = << >>
       \/ /\ unitIn.waiting.pc = "basicReturned"
          /\ unitIn.waiting.issues = << >>


----------------------------------------------------------------------------
(* Properties of the report generator (specification SpecReport) *)

\* C27: classification is total: every issue handed to the report, also one
\* whose severity is not critical, major or minor or that has no category, is
\* kept, under its own severity and category or under the default minor /
\* General, and not dropped.
C27_EveryIssueClassified ==
    response.kind = "report" =>
        \A i \in DOMAIN issues :
            \E c \in DOMAIN response.cards :
                /\ response.cards[c].index = i
                /\ response.cards[c].severity =
                      IF issues[i].severity \in { "critical", "major", "minor" }
                      THEN issues[i].severity ELSE "minor"
                /\ response.cards[c].category =
                      IF issues[i].category = Undefined
                      THEN "General" ELSE issues[i].category


----------------------------------------------------------------------------
(* Properties of the page state between the probes (specification Spec) *)

\* the probe that returned last
LastProbe == IF trace = << >> THEN "none" ELSE trace[Len(trace)]

\* C28: every probe that changes the shared page state restores it before the
\* next probe runs: after runNavigationTests and after runResponsiveTests the
\* page is on the original URL at the viewport the caller requested.
C28_ProbesRestoreLocationAndViewport ==
    LastProbe \in { "navigation", "responsive" }
        => /\ location = OrigUrl
           /\ viewport = RequestedViewport


----------------------------------------------------------------------------
(* Properties of the verify step (specification SpecFlow) *)

\* C29: a verify step compares the located element's text with the expected
\* substring: a missing element gives passed = false with actualValue null and
\* no error; an element that exists gives passed = true exactly when its text
\* contains the expected substring, and no error.
C29_VerifyComparesLiveText ==
    FlowReturned =>
        \A i \in DOMAIN unitIn.flow :
            unitIn.flow[i] = "verify" =>
                LET r == qaResults[1].steps[i]
                IN  /\ unitIn.outs[i] = "missing"
                          => r.passed = "false" /\ r.actualValue = "null" /\ ~r.error
                    /\ unitIn.outs[i] \in { "ok", "mismatch" }
                          => r.passed = Bool(unitIn.outs[i] = "ok") /\ ~r.error


----------------------------------------------------------------------------
(* Properties of the network collector (specification SpecMonitor) *)

\* the order of the monitor's severities
SeverityRank(severity) ==
    CASE severity = "high" -> 3
      [] severity = "medium" -> 2
      [] severity = "low" -> 1

\* the HTTP Error records made from browser event ev
HttpErrorRecords(records, ev) ==
    { i \in DOMAIN records :
        /\ records[i].category = "HTTP Error"
        /\ "event" \in DOMAIN records[i]
        /\ records[i].event = ev }

ResponseEvents == { ev \in DOMAIN EventLog : EventLog[ev].kind = "response" }

\* one record for a status of 400 or more, none below
OneRecordPerErrorStatus(records) ==
    \A ev \in ResponseEvents :
        Cardinality(HttpErrorRecords(records, ev))
            = IF EventLog[ev].status >= 400 THEN 1 ELSE 0

\* a record for a 5xx ranks above every record for a 4xx
ServerAboveClient(records) ==
    \A i, j \in DOMAIN records :
        (/\ records[i].category = "HTTP Error"
         /\ records[j].category = "HTTP Error"
         /\ EventLog[records[i].event].status >= 500
         /\ EventLog[records[j].event].status < 500)
        => SeverityRank(records[i].severity) > SeverityRank(records[j].severity)

\* C30: while the network filter is on, every response with status >= 400
\* yields exactly one HTTP Error record and every response below 400 none; the
\* record of a status >= 500 has a strictly higher severity than the record of
\* a status 400..499.
C30_HttpErrorPerFailedResponse ==
    (toolName = "console_monitor" /\ filters.network)
        => /\ OneRecordPerErrorStatus(networkErrors)
           /\ ServerAboveClient(networkErrors)
           /\ response.kind = "monitor"
                 => /\ OneRecordPerErrorStatus(response.issues)
                    /\ ServerAboveClient(response.issues)
                    /\ response.networkErrors = networkErrors

\* the page answered 404 and 500: the result has a medium and a high record
C30_Witness ==
    /\ response.kind = "monitor"
    /\ filters.network
    /\ \E a, b \in ResponseEvents :
          /\ EventLog[a].status = 404
          /\ EventLog[b].status = 500
          /\ \E i, j \in DOMAIN response.issues :
                /\ response.issues[i] = Signal("response", "medium", "HTTP Error", a)
                /\ response.issues[j] = Signal("response", "high", "HTTP Error", b)


----------------------------------------------------------------------------
(* Properties of the link cap (specification SpecLinks) *)

\* the details of the Navigation Links Test the probe recorded
NavDetails == qaResults[1].details

\* C31: runNavigationTests navigates to at most 10 links, the first
\* min(10, number of links found), and records workingLinks + brokenLinks =
\* linksTestedCount <= 10 and linksTestedCount <= totalLinksFound.
C31_AtMostTenLinksTested ==
    NavReturned =>
        LET found == Len(unitIn.links)
            first == 1..(IF found < 10 THEN found ELSE 10)
        IN  /\ NavDetails.totalLinksFound = found
            /\ NavDetails.linksTestedCount = Cardinality(first)
            /\ NavDetails.workingLinks
                  = Cardinality({ i \in first : unitIn.links[i] = "200" })
            /\ NavDetails.brokenLinks
                  = Cardinality({ i \in first : unitIn.links[i] # "200" })
            /\ NavDetails.workingLinks + NavDetails.brokenLinks
                  = NavDetails.linksTestedCount
            /\ NavDetails.linksTestedCount <= 10
            /\ NavDetails.linksTestedCount <= NavDetails.totalLinksFound

\* twelve links found, the eleventh broken: ten tested, all working
C31_Witness ==
    /\ NavReturned
    /\ Len(unitIn.links) = 12
    /\ unitIn.links[11] = "404"
    /\ NavDetails = [ totalLinksFound |-> 12, linksTestedCount |-> 10,
                      workingLinks |-> 10, brokenLinks |-> 0 ]
    /\ qaResults[1].passed = "true"


----------------------------------------------------------------------------
(* Properties of the link verdict (specification SpecNav) *)

\* C32: a tested link is counted as broken exactly when its status is outside
\* 200..299 or its navigation raised a transport error; a link answering with
\* any 2xx status is counted as working.
C32_BrokenIffNot2xxOrTransportError ==
    (NavReturned /\ unitIn.discovery = "ok") =>
        /\ NavDetails.brokenLinks = FailedLinks
        /\ NavDetails.workingLinks = Len(TestedLinks) - FailedLinks


----------------------------------------------------------------------------
(* Properties of testEndpointsTool (specifications SpecEndpoints and       *)
(* SpecEndpointsFair)                                                      *)

EndpointsReturned == response.kind = "endpoints"

\* C33: testEndpointsTool runs the endpoints in fixed-size batches: never
\* more than maxConcurrency requests are in flight, no request of batch k+1
\* starts before every request of batch k has completed, a failing request does
\* not keep the others of its batch from being recorded, and the results list
\* has one entry per endpoint in the order the endpoints were given.
C33_BoundedBatches ==
    toolName = "test_endpoints" =>
        LET t == endpointTest
        IN  /\ t.pending # { } => 2 * Cardinality(t.pending) <= t.maxConcurrency
            /\ pc = "eAwait" =>
                  /\ \A e \in t.pending \cup { r.endpoint : r \in t.settled } :
                        \E k \in DOMAIN t.batches[t.batch] : t.batches[t.batch][k] = e
                  /\ Len(t.results)
                        = Cardinality({ e \in DOMAIN t.endpoints :
                             \E a \in 1..(t.batch - 1) :
                                \E k \in DOMAIN t.batches[a] : t.batches[a][k] = e })
            /\ EndpointsReturned =>
                  /\ Len(response.results) = Len(t.endpoints)
                  /\ \A e \in DOMAIN t.endpoints :
                        response.results[e] = EndpointResult(e, t.endpoints[e])


\* C38: testEndpointsTool terminates for every accepted input: for every
\* endpoint list and every numeric maxConcurrency the schema accepts, 0 and
\* negative values included, batch construction finishes and the tool returns
\* once every request has completed or timed out.
C38_TestEndpointsTerminates == <>EndpointsReturned


----------------------------------------------------------------------------
(* Properties of the monitoring wait (specification SpecWait) *)

\* C34: consoleMonitorTool monitors for a bounded duration: the remaining wait
\* it requests after the navigation and the interactions is the duration minus
\* the time elapsed and is never negative, also when they took longer than the
\* duration; the invocation then goes on to collect its results.
C34_RemainingWaitNeverNegative ==
    "requested" \in DOMAIN unitIn =>
        /\ unitIn.requested >= 0
        /\ unitIn.elapsed <= unitIn.duration
              => unitIn.requested = unitIn.duration - unitIn.elapsed
        /\ pc \in { "mMetrics", "mAudit", "mCatch", "mFinally", "done" }


----------------------------------------------------------------------------
(* Properties of the result list and the summary of functionalQATool *)
(* (specification Spec)                                               *)

\* the test names of the built-in checks (the custom flows are named by the caller)
BuiltInTestNames ==
    { "Connectivity Test", "Page Title Check", "Broken Images Check",
      "JavaScript Errors Check", "Authentication Tests", "Navigation Links Test",
      "Form Structure Check", "Responsive Design Test", "UI Quality Assessment",
      "Performance Assessment" }

\* the positions of the results recorded under a test name
ResultsNamed(name) == { i \in DOMAIN qaResults : qaResults[i].testName = name }

\* C35: in one run of functionalQATool every built-in check appends exactly one
\* TestResult under its test name on every path, also when the check throws
\* after it has recorded its result: no built-in test name appears twice in the
\* result list, and in a returned summary every check of a probe that ran has
\* its one result.
C35_OneResultPerBuiltInCheck ==
    /\ \A name \in BuiltInTestNames : Cardinality(ResultsNamed(name)) <= 1
    /\ response.kind = "summary" =>
          \A name \in BuiltInTestNames :
              ProbeOf(name) \in Range(trace) => Cardinality(ResultsNamed(name)) = 1


\* C36: in every result of functionalQATool, a positive failed count comes with
\* a non-empty issue list, every failed TestResult being accompanied by an
\* issue, so that the positive confirmation is never recommended for a run in
\* which some test failed.
C36_FailedTestsHaveIssues ==
    response.kind = "summary" =>
        (response.summary.failed > 0 =>
            /\ response.issues # << >>
            /\ PositiveLine \notin Range(response.recommendations))


\* C37: in every summary returned by functionalQATool the counts of critical,
\* major and minor issues add up to the total issue count, which is the length
\* of the issue list, for every suite and every combination of findings.
C37_SeverityCountsAddUp ==
    response.kind = "summary" =>
        /\ response.summary.issues = Len(response.issues)
        /\ response.summary.criticalIssues + response.summary.majorIssues
              + response.summary.minorIssues = response.summary.issues

\* a summary over issues of the three severities at once
C37_Witness ==
    /\ response.kind = "summary"
    /\ response.summary.criticalIssues > 0
    /\ response.summary.majorIssues > 0
    /\ response.summary.minorIssues > 0
    /\ \E i \in DOMAIN response.issues : response.issues[i].category = "UI/UX"

====
